---- MODULE Spec2Model ----
(***************************************************************************)
(* Model of GraphStore (src/lib/graph-store.ts): a batched on-disk store  *)
(* of (chunk, embedding) pairs with a bounded in-memory batch cache.      *)
(*                                                                         *)
(* Files are modelled as option values: << >> is "no such file" and       *)
(* <<content>> is a file holding content.  A JavaScript Map is modelled   *)
(* as a sequence of [k, v] entries in insertion order, which is the order *)
(* Map.keys() enumerates.  Numbers are modelled as integers; a number is  *)
(* representable in single precision exactly when it is even, so that     *)
(* writeFloatLE followed by readFloatLE rounds odd values down.           *)
(***************************************************************************)
EXTENDS Integers, Sequences, FiniteSets, TLC

\* graph-store.ts:13 (1000 in the source, scaled down for model checking)
BATCH_SIZE == 2

\* graph-store.ts:14 (5 in the source, scaled down for model checking)
MAX_CACHED_BATCHES == 2

\* Largest number of records the model lets the store hold.
MaxChunks == 5

\* The dimension passed to setConfig by the owner of the store.
Dimension == 2

\* The graphThreshold passed to setConfig, in tenths (embedder.ts:40).
Threshold == 7

Sources == {"A", "B"}

Ids == {1, 2}

MaxVectors == 3

MaxBatch == (MaxChunks - 1) \div BATCH_SIZE

BatchNums == 0..MaxBatch

Min(a, b) == IF a < b THEN a ELSE b

Max(a, b) == IF a > b THEN a ELSE b

\* Math.ceil(n / BATCH_SIZE) for n >= 0
CeilDiv(n) == (n + BATCH_SIZE - 1) \div BATCH_SIZE

(***************************************************************************)
(* Inputs of addChunk.                                                     *)
(***************************************************************************)
\* The vector the embedding producer returns for a chunk: all components
\* even (single-precision representable) for id 1, all odd for id 2.
EmbeddingOf(id) == [j \in 1..Dimension |-> IF id = 1 THEN 2 * j ELSE 2 * j + 5]

GraphChunkData(id, source) ==
    [id |-> id, text |-> "t", source |-> source, chunkIndex |-> id - 1]

Inputs == {[chunk |-> GraphChunkData(i, s), embedding |-> EmbeddingOf(i)] :
              i \in Ids, s \in Sources}

(***************************************************************************)
(* Binary vector codec.  A buffer is a sequence of 32-bit words: word 1 is *)
(* the count, the following words are the float32 bit patterns.            *)
(***************************************************************************)
\* Buffer.writeFloatLE: the double is rounded to single precision.
writeFloatLE(value) == value \div 2

\* Buffer.readFloatLE: the single-precision value widened to a double.
readFloatLE(word) == word * 2

\* What a vector reads back as after being written and read once.
RoundVector(v) == [j \in 1..Len(v) |-> readFloatLE(writeFloatLE(v[j]))]

RoundVectors(vs) == [i \in 1..Len(vs) |-> RoundVector(vs[i])]

RECURSIVE Flatten(_)
Flatten(embeddings) ==
    IF embeddings = << >> THEN << >>
    ELSE [j \in 1..Len(Head(embeddings)) |-> writeFloatLE(Head(embeddings)[j])]
         \o Flatten(Tail(embeddings))

\* Mutant: the header holds the number of values instead of the number of vectors.
encodeEmbeddings_ValueCount(embeddings, dimension) ==
    LET count == Len(embeddings)
        words == Flatten(embeddings)
    IN  <<count * dimension>> \o [k \in 1..(count * dimension) |->
                                     IF k <= Len(words) THEN words[k] ELSE 0]

\* The buffer has 1 + count * dimension words (4 + count * dimension * 4
\* bytes); the values are written densely from word 2 on.
encodeEmbeddings(embeddings, dimension) ==
    LET count == Len(embeddings)
        words == Flatten(embeddings)
    IN  <<count>> \o [k \in 1..(count * dimension) |->
                         IF k <= Len(words) THEN words[k] ELSE 0]

\* Length of a buffer in bytes.
ByteLength(buffer) == 4 * Len(buffer)

\* A read past the end of the buffer raises a RangeError.
DecodeThrows(buffer, dimension) ==
    \/ Len(buffer) < 1
    \/ Len(buffer) < 1 + buffer[1] * dimension

\* Mutant: the reads start at the count word instead of after it.
decodeEmbeddings_NoHeader(buffer, dimension) ==
    LET count == buffer[1]
    IN  [i \in 1..count |->
            [j \in 1..dimension |-> readFloatLE(buffer[(i - 1) * dimension + j])]]

decodeEmbeddings(buffer, dimension) ==
    LET count == buffer[1]
    IN  [i \in 1..count |->
            [j \in 1..dimension |-> readFloatLE(buffer[1 + (i - 1) * dimension + j])]]

(***************************************************************************)
(* JavaScript Map with insertion order.                                    *)
(***************************************************************************)
MapHas(m, k) == \E i \in 1..Len(m) : m[i].k = k

MapGet(m, k) == m[CHOOSE i \in 1..Len(m) : m[i].k = k].v

MapSet(m, k, v) ==
    IF MapHas(m, k)
    THEN [i \in 1..Len(m) |-> IF m[i].k = k THEN [k |-> k, v |-> v] ELSE m[i]]
    ELSE Append(m, [k |-> k, v |-> v])

MapDeleteTest(e, k) == e.k # k

MapDelete(m, k) == SelectSeq(m, LAMBDA e : MapDeleteTest(e, k))

MapKeys(m) == [i \in 1..Len(m) |-> m[i].k]

MapKeySet(m) == {m[i].k : i \in 1..Len(m)}

(***************************************************************************)
(* State of one store instance and of its directory.                       *)
(***************************************************************************)
VARIABLES
    chunkFiles,       \* chunks/batch-NNNN.json, by batch number
    embFiles,         \* embeddings/batch-NNNN.bin, by batch number
    indexFile,        \* index.json
    configFile,       \* config.json
    chunksCache,      \* this.chunksCache
    embeddingsCache,  \* this.embeddingsCache
    index,            \* this.index
    config,           \* this.config
    call,             \* history: the last public call and its arguments
    written,          \* history: files written by the last call
    deleted,          \* history: files deleted by the last call
    log,              \* history: the writes and unlinks of the last call, in order
    added,            \* history: the pairs passed to addChunk and not removed since
    touched,          \* history: the cached batches, least recently touched first
    codec,            \* a list of vectors on its way through the codec
    pc,               \* the owner's position: "ready" in its first run,
                      \* "closed" between two runs, "constructed" until
                      \* the second run has called setConfig, then "reopened"
    repo,             \* the indexed directory: its files and its git history
    vectors,          \* the LanceDB table: the stored vectors, by source path
    stateFile,        \* .embedder-state.json
    stateManager,     \* StateManager.state of the running Embedder
    stats,            \* Embedder.stats of the running Embedder
    run               \* the position of Embedder.run() and its history

vars == <<chunkFiles, embFiles, indexFile, configFile, chunksCache,
          embeddingsCache, index, config, call, written, deleted, log, added,
          touched, codec, pc, repo, vectors, stateFile, stateManager, stats, run>>

\* The variables of the Embedder and of the directory it indexes.
embedderVars == <<repo, vectors, stateFile, stateManager, stats, run>>

\* The variables of the store and of its history.
storeVars == <<chunkFiles, embFiles, indexFile, configFile, chunksCache,
               embeddingsCache, index, config, call, written, deleted, log, added,
               touched, pc>>

ChunkFileId(b) == [kind |-> "chunks", num |-> b]

EmbFileId(b) == [kind |-> "embeddings", num |-> b]

IndexFileId == [kind |-> "index", num |-> 0]

NoFile == [kind |-> "none", num |-> 0]

ConfigFileId == [kind |-> "config", num |-> 0]

\* Entries of the log: fs.writeFileSync and fs.unlinkSync on a file.
WriteOf(file) == [act |-> "write", file |-> file]

UnlinkOf(file) == [act |-> "unlink", file |-> file]

createEmptyConfig == [version |-> "1.0", dimension |-> 0, threshold |-> Threshold]

createEmptyIndex == [chunkCount |-> 0, batchSize |-> BATCH_SIZE]

\* The instance and its directory as one record, at the start of a call.
Cur ==
    [chunkFiles |-> chunkFiles, embFiles |-> embFiles, indexFile |-> indexFile,
     configFile |-> configFile, chunksCache |-> chunksCache,
     embeddingsCache |-> embeddingsCache, index |-> index, config |-> config,
     written |-> {}, deleted |-> {}, log |-> << >>]

Install(s) ==
    /\ chunkFiles' = s.chunkFiles
    /\ embFiles' = s.embFiles
    /\ indexFile' = s.indexFile
    /\ configFile' = s.configFile
    /\ chunksCache' = s.chunksCache
    /\ embeddingsCache' = s.embeddingsCache
    /\ index' = s.index
    /\ config' = s.config
    /\ written' = s.written
    /\ deleted' = s.deleted
    /\ log' = s.log

\* Mutant: the batch of the record after globalIndex.
getBatchNumber_OffByOne(globalIndex) == (globalIndex + 1) \div BATCH_SIZE

getBatchNumber(globalIndex) == globalIndex \div BATCH_SIZE

saveConfig(s) ==
    [s EXCEPT !.configFile = <<s.config>>,
              !.written = @ \cup {ConfigFileId},
              !.log = Append(@, WriteOf(ConfigFileId))]

saveIndex(s) ==
    [s EXCEPT !.indexFile = <<s.index>>,
              !.written = @ \cup {IndexFileId},
              !.log = Append(@, WriteOf(IndexFileId))]

\* The content of a file that is not JSON text.
Unparsable == [unparsable |-> TRUE]

\* JSON.parse throws on such a file.
JsonParseThrows(content) == content = Unparsable

\* Mutant: a config.json of another version is migrated, not discarded.
loadConfig_Migrates(file) ==
    IF file = << >> THEN createEmptyConfig
    ELSE IF JsonParseThrows(file[1]) THEN createEmptyConfig
    ELSE [file[1] EXCEPT !.version = "1.0"]

loadConfig(file) ==
    IF file = << >> THEN createEmptyConfig
    ELSE IF JsonParseThrows(file[1]) THEN createEmptyConfig
    ELSE IF file[1].version # "1.0" THEN createEmptyConfig
    ELSE file[1]

\* Whether loadConfig leaves by an exception: the read, the parse and the
\* version check are inside try/catch.
loadConfigRaises(file) == FALSE

loadIndex(file) ==
    IF file = << >> THEN createEmptyIndex
    ELSE IF JsonParseThrows(file[1]) THEN createEmptyIndex
    ELSE file[1]

\* Mutant: the error of JSON.parse is not caught.
loadIndexRaises_NoCatch(file) == file # << >> /\ JsonParseThrows(file[1])

\* Whether loadIndex leaves by an exception: the read and the parse are inside
\* try/catch.
loadIndexRaises(file) == FALSE

\* The content of a chunk file that a failed write left incomplete.
Torn == [torn |-> TRUE]

\* JSON.parse throws on an incomplete file.
ParseThrows(content) == "chunks" \notin DOMAIN content

loadChunkBatch(s, batchNum) ==
    IF MapHas(s.chunksCache, batchNum) THEN MapGet(s.chunksCache, batchNum)
    ELSE IF s.chunkFiles[batchNum] = << >> THEN << >>
    ELSE IF ParseThrows(s.chunkFiles[batchNum][1]) THEN << >>
    ELSE s.chunkFiles[batchNum][1].chunks

saveChunkBatch(s, batchNum, chunks) ==
    [s EXCEPT !.chunkFiles[batchNum] = <<[chunks |-> chunks]>>,
              !.chunksCache = MapSet(@, batchNum, chunks),
              !.written = @ \cup {ChunkFileId(batchNum)},
              !.log = Append(@, WriteOf(ChunkFileId(batchNum)))]

loadEmbeddingBatch(s, batchNum) ==
    IF MapHas(s.embeddingsCache, batchNum) THEN MapGet(s.embeddingsCache, batchNum)
    ELSE IF s.embFiles[batchNum] = << >> THEN << >>
    ELSE IF DecodeThrows(s.embFiles[batchNum][1], s.config.dimension) THEN << >>
    ELSE decodeEmbeddings(s.embFiles[batchNum][1], s.config.dimension)

saveEmbeddingBatch(s, batchNum, embeddings) ==
    [s EXCEPT !.embFiles[batchNum] =
                  <<encodeEmbeddings(embeddings, s.config.dimension)>>,
              !.embeddingsCache = MapSet(@, batchNum, embeddings),
              !.written = @ \cup {EmbFileId(batchNum)},
              !.log = Append(@, WriteOf(EmbFileId(batchNum)))]

\* Mutant: the batch is removed from the cache without being flushed.
EvictOne_NoFlush(s, batchNum) ==
    [s EXCEPT !.chunksCache = MapDelete(@, batchNum),
              !.embeddingsCache = MapDelete(@, batchNum)]

\* One iteration of the eviction loop: flush, then remove from both caches.
EvictOne(s, batchNum) ==
    LET s1 == IF MapHas(s.chunksCache, batchNum)
              THEN saveChunkBatch(s, batchNum, MapGet(s.chunksCache, batchNum))
              ELSE s
        s2 == IF MapHas(s1.embeddingsCache, batchNum)
              THEN saveEmbeddingBatch(s1, batchNum, MapGet(s1.embeddingsCache, batchNum))
              ELSE s1
    IN  [s2 EXCEPT !.chunksCache = MapDelete(@, batchNum),
                   !.embeddingsCache = MapDelete(@, batchNum)]

RECURSIVE EvictLoop(_, _)
EvictLoop(s, toEvict) ==
    IF toEvict = << >> THEN s
    ELSE EvictLoop(EvictOne(s, Head(toEvict)), Tail(toEvict))

\* Mutant: the batch to keep is not filtered out of the candidates.
NotKept_Any(n, keepBatchNum) == n \in BatchNums

NotKept(n, keepBatchNum) == n # keepBatchNum

\* Mutant: one batch too few is chosen.
ToEvict_OneLess(s, keepBatchNum) ==
    LET totalCached == Len(s.chunksCache)
        batchNums == SelectSeq(MapKeys(s.chunksCache),
                               LAMBDA n : NotKept(n, keepBatchNum))
        howMany == Max(0, totalCached - MAX_CACHED_BATCHES)
    IN  SubSeq(batchNums, 1, Min(howMany, Len(batchNums)))

\* Mutant: the newest inserted batches are chosen.
ToEvict_Newest(s, keepBatchNum) ==
    LET totalCached == Len(s.chunksCache)
        batchNums == SelectSeq(MapKeys(s.chunksCache),
                               LAMBDA n : NotKept(n, keepBatchNum))
        howMany == Min(Max(0, totalCached - MAX_CACHED_BATCHES + 1), Len(batchNums))
    IN  SubSeq(batchNums, Len(batchNums) - howMany + 1, Len(batchNums))

\* The batches evictOldCaches chooses, oldest inserted first.
ToEvict(s, keepBatchNum) ==
    LET totalCached == Len(s.chunksCache)
        batchNums == SelectSeq(MapKeys(s.chunksCache),
                               LAMBDA n : NotKept(n, keepBatchNum))
        howMany == Max(0, totalCached - MAX_CACHED_BATCHES + 1)
    IN  SubSeq(batchNums, 1, Min(howMany, Len(batchNums)))

evictOldCaches(s, keepBatchNum) ==
    IF Len(s.chunksCache) >= MAX_CACHED_BATCHES
    THEN EvictLoop(s, ToEvict(s, keepBatchNum))
    ELSE s

\* fs.writeFileSync throws: the file is left as it was, or incomplete (an
\* unparsable chunk file, an embedding file without its count word).
FailWrite(s, file, torn) ==
    IF ~torn THEN s
    ELSE IF file.kind = "chunks"
    THEN [s EXCEPT !.chunkFiles[file.num] = <<Torn>>,
                   !.written = @ \cup {file},
                   !.log = Append(@, WriteOf(file))]
    ELSE [s EXCEPT !.embFiles[file.num] = << << >> >>,
                   !.written = @ \cup {file},
                   !.log = Append(@, WriteOf(file))]

\* The flush of one cached batch in which the write of its file of the given
\* kind throws: saveChunkBatch rethrows before chunksCache.set, and
\* saveEmbeddingBatch runs only after saveChunkBatch has returned.
FlushThrows(s, batchNum, kind, torn) ==
    IF kind = "chunks"
    THEN FailWrite(s, ChunkFileId(batchNum), torn)
    ELSE FailWrite(saveChunkBatch(s, batchNum, MapGet(s.chunksCache, batchNum)),
                   EmbFileId(batchNum), torn)

\* evictOldCaches leaving by the exception of the k-th batch it flushes.
evictOldCachesThrows(s, keepBatchNum, k, kind, torn) ==
    LET toEvict == ToEvict(s, keepBatchNum)
    IN  FlushThrows(EvictLoop(s, SubSeq(toEvict, 1, k - 1)), toEvict[k], kind, torn)

\* Mutant: the exception is swallowed and addChunk carries on.
addChunkThrows_Swallowed(s, chunk, embedding, k, kind, torn) ==
    LET batchNum == getBatchNumber(s.index.chunkCount)
        s1 == evictOldCachesThrows(s, batchNum, k, kind, torn)
        chunks == Append(loadChunkBatch(s1, batchNum), chunk)
        embeddings == Append(loadEmbeddingBatch(s1, batchNum), embedding)
    IN  [s1 EXCEPT !.chunksCache = MapSet(@, batchNum, chunks),
                   !.embeddingsCache = MapSet(@, batchNum, embeddings),
                   !.index.chunkCount = @ + 1]

\* addChunk leaving by the exception of evictOldCaches: nothing after the
\* call of evictOldCaches is executed.
addChunkThrows(s, chunk, embedding, k, kind, torn) ==
    evictOldCachesThrows(s, getBatchNumber(s.index.chunkCount), k, kind, torn)

\* Mutant: a batch that is not cached is started empty, not loaded from disk.
addChunk_IgnoresDisk(s, chunk, embedding) ==
    LET globalIndex == s.index.chunkCount
        batchNum == getBatchNumber(globalIndex)
        s1 == evictOldCaches(s, batchNum)
        chunks == Append(IF MapHas(s1.chunksCache, batchNum)
                         THEN MapGet(s1.chunksCache, batchNum) ELSE << >>, chunk)
        embeddings == Append(IF MapHas(s1.embeddingsCache, batchNum)
                             THEN MapGet(s1.embeddingsCache, batchNum) ELSE << >>,
                             embedding)
    IN  [s1 EXCEPT !.chunksCache = MapSet(@, batchNum, chunks),
                   !.embeddingsCache = MapSet(@, batchNum, embeddings),
                   !.index.chunkCount = @ + 1]

\* Mutant: the embeddings of a batch loaded from disk are not put in the cache.
addChunk_NoEmbeddingsSet(s, chunk, embedding) ==
    LET globalIndex == s.index.chunkCount
        batchNum == getBatchNumber(globalIndex)
        s1 == evictOldCaches(s, batchNum)
        chunks == Append(loadChunkBatch(s1, batchNum), chunk)
        embeddings == Append(loadEmbeddingBatch(s1, batchNum), embedding)
    IN  [s1 EXCEPT !.chunksCache = MapSet(@, batchNum, chunks),
                   !.embeddingsCache = IF MapHas(@, batchNum)
                                       THEN MapSet(@, batchNum, embeddings) ELSE @,
                   !.index.chunkCount = @ + 1]

addChunk(s, chunk, embedding) ==
    LET globalIndex == s.index.chunkCount
        batchNum == getBatchNumber(globalIndex)
        s1 == evictOldCaches(s, batchNum)
        chunks == Append(loadChunkBatch(s1, batchNum), chunk)
        embeddings == Append(loadEmbeddingBatch(s1, batchNum), embedding)
    IN  [s1 EXCEPT !.chunksCache = MapSet(@, batchNum, chunks),
                   !.embeddingsCache = MapSet(@, batchNum, embeddings),
                   !.index.chunkCount = @ + 1]

\* What embeddings[i]! evaluates to past the end of the array.
Undefined == <<-1>>

ElementAt(embeddings, i) == IF i <= Len(embeddings) THEN embeddings[i] ELSE Undefined

\* Mutant: only the first record of the source is removed.
RECURSIVE ScanBatch_FirstOnly(_, _, _, _, _)
ScanBatch_FirstOnly(chunks, embeddings, i, source, acc) ==
    IF i > Len(chunks) THEN acc
    ELSE ScanBatch_FirstOnly(chunks, embeddings, i + 1, source,
             IF chunks[i].source # source \/ acc.removedCount > 0
             THEN [acc EXCEPT !.remainingChunks = Append(@, chunks[i]),
                              !.remainingEmbeddings = Append(@, ElementAt(embeddings, i))]
             ELSE [acc EXCEPT !.removedCount = @ + 1])

\* Mutant: the test on the source is inverted.
RECURSIVE ScanBatch_Inverted(_, _, _, _, _)
ScanBatch_Inverted(chunks, embeddings, i, source, acc) ==
    IF i > Len(chunks) THEN acc
    ELSE ScanBatch_Inverted(chunks, embeddings, i + 1, source,
             IF chunks[i].source = source
             THEN [acc EXCEPT !.remainingChunks = Append(@, chunks[i]),
                              !.remainingEmbeddings = Append(@, ElementAt(embeddings, i))]
             ELSE [acc EXCEPT !.removedCount = @ + 1])

\* The inner loop of the scan over one batch.
RECURSIVE ScanBatch(_, _, _, _, _)
ScanBatch(chunks, embeddings, i, source, acc) ==
    IF i > Len(chunks) THEN acc
    ELSE ScanBatch(chunks, embeddings, i + 1, source,
             IF chunks[i].source # source
             THEN [acc EXCEPT !.remainingChunks = Append(@, chunks[i]),
                              !.remainingEmbeddings = Append(@, ElementAt(embeddings, i))]
             ELSE [acc EXCEPT !.removedCount = @ + 1])

\* The outer loop of the scan over batches batchNum .. totalBatches - 1.
RECURSIVE Scan(_, _, _, _, _)
Scan(s, source, batchNum, totalBatches, acc) ==
    IF batchNum >= totalBatches THEN acc
    ELSE Scan(s, source, batchNum + 1, totalBatches,
              ScanBatch(loadChunkBatch(s, batchNum), loadEmbeddingBatch(s, batchNum),
                        1, source, acc))

\* Mutant: the embedding file of a batch is unlinked before its chunk file.
RECURSIVE UnlinkLog_EmbeddingsFirst(_, _, _)
UnlinkLog_EmbeddingsFirst(s, batchNum, totalBatches) ==
    IF batchNum >= totalBatches THEN << >>
    ELSE (IF s.embFiles[batchNum] # << >>
          THEN <<UnlinkOf(EmbFileId(batchNum))>> ELSE << >>)
         \o (IF s.chunkFiles[batchNum] # << >>
             THEN <<UnlinkOf(ChunkFileId(batchNum))>> ELSE << >>)
         \o UnlinkLog_EmbeddingsFirst(s, batchNum + 1, totalBatches)

\* The unlinks of the loop over batches batchNum .. totalBatches - 1: the
\* chunk file, then the embedding file, of each batch, when they exist.
RECURSIVE UnlinkLog(_, _, _)
UnlinkLog(s, batchNum, totalBatches) ==
    IF batchNum >= totalBatches THEN << >>
    ELSE (IF s.chunkFiles[batchNum] # << >>
          THEN <<UnlinkOf(ChunkFileId(batchNum))>> ELSE << >>)
         \o (IF s.embFiles[batchNum] # << >>
             THEN <<UnlinkOf(EmbFileId(batchNum))>> ELSE << >>)
         \o UnlinkLog(s, batchNum + 1, totalBatches)

\* Mutant: the old batch files are left in place.
UnlinkBatches_None(s, totalBatches) == s

\* Mutant: only the chunk files are unlinked.
UnlinkBatches_ChunksOnly(s, totalBatches) ==
    [s EXCEPT !.chunkFiles = [b \in BatchNums |-> IF b < totalBatches THEN << >> ELSE @[b]],
              !.deleted = @ \cup {ChunkFileId(b) : b \in {n \in BatchNums :
                                      n < totalBatches /\ s.chunkFiles[n] # << >>}}]

\* fs.unlinkSync of both files of every batch below totalBatches.
UnlinkBatches(s, totalBatches) ==
    [s EXCEPT !.chunkFiles = [b \in BatchNums |-> IF b < totalBatches THEN << >> ELSE @[b]],
              !.embFiles = [b \in BatchNums |-> IF b < totalBatches THEN << >> ELSE @[b]],
              !.deleted = @ \cup {ChunkFileId(b) : b \in {n \in BatchNums :
                                      n < totalBatches /\ s.chunkFiles[n] # << >>}}
                            \cup {EmbFileId(b) : b \in {n \in BatchNums :
                                      n < totalBatches /\ s.embFiles[n] # << >>}},
              !.log = @ \o UnlinkLog(s, 0, totalBatches)]

\* The loop that writes the kept records as batches batchNum .. newTotalBatches - 1.
RECURSIVE Rewrite(_, _, _, _, _)
Rewrite(s, remainingChunks, remainingEmbeddings, batchNum, newTotalBatches) ==
    IF batchNum >= newTotalBatches THEN s
    ELSE LET startIdx == batchNum * BATCH_SIZE
             endIdx == Min(startIdx + BATCH_SIZE, Len(remainingChunks))
             batchChunks == SubSeq(remainingChunks, startIdx + 1, endIdx)
             batchEmbeddings == SubSeq(remainingEmbeddings, startIdx + 1, endIdx)
         IN  Rewrite(saveEmbeddingBatch(saveChunkBatch(s, batchNum, batchChunks),
                                        batchNum, batchEmbeddings),
                     remainingChunks, remainingEmbeddings, batchNum + 1, newTotalBatches)

\* Mutant: no early return when nothing was removed.
removeChunksBySource_AlwaysRewrites(s, source) ==
    LET totalBatches == CeilDiv(s.index.chunkCount)
        scan == Scan(s, source, 0, totalBatches,
                     [remainingChunks |-> << >>, remainingEmbeddings |-> << >>,
                      removedCount |-> 0])
        s1 == UnlinkBatches(s, totalBatches)
        s2 == [s1 EXCEPT !.chunksCache = << >>,
                         !.embeddingsCache = << >>,
                         !.index.chunkCount = Len(scan.remainingChunks)]
        s3 == Rewrite(s2, scan.remainingChunks, scan.remainingEmbeddings, 0,
                      CeilDiv(Len(scan.remainingChunks)))
    IN  saveIndex(s3)

\* Mutant: the index is not persisted after the rewrite.
removeChunksBySource_NoSaveIndex(s, source) ==
    LET totalBatches == CeilDiv(s.index.chunkCount)
        scan == Scan(s, source, 0, totalBatches,
                     [remainingChunks |-> << >>, remainingEmbeddings |-> << >>,
                      removedCount |-> 0])
        s1 == UnlinkBatches(s, totalBatches)
        s2 == [s1 EXCEPT !.chunksCache = << >>,
                         !.embeddingsCache = << >>,
                         !.index.chunkCount = Len(scan.remainingChunks)]
        s3 == Rewrite(s2, scan.remainingChunks, scan.remainingEmbeddings, 0,
                      CeilDiv(Len(scan.remainingChunks)))
    IN  IF scan.removedCount = 0 THEN s ELSE s3

removeChunksBySource(s, source) ==
    LET totalBatches == CeilDiv(s.index.chunkCount)
        scan == Scan(s, source, 0, totalBatches,
                     [remainingChunks |-> << >>, remainingEmbeddings |-> << >>,
                      removedCount |-> 0])
        s1 == UnlinkBatches(s, totalBatches)
        s2 == [s1 EXCEPT !.chunksCache = << >>,
                         !.embeddingsCache = << >>,
                         !.index.chunkCount = Len(scan.remainingChunks)]
        s3 == Rewrite(s2, scan.remainingChunks, scan.remainingEmbeddings, 0,
                      CeilDiv(Len(scan.remainingChunks)))
    IN  IF scan.removedCount = 0 THEN s ELSE saveIndex(s3)

\* The directory when the process stops inside removeChunksBySource(source)
\* after the first k of its file operations: the call unlinks a file at most
\* once and writes it at most once, in that order.
removeChunksBySourceUntil(s, source, k) ==
    LET done == removeChunksBySource(s, source)
        ops == SubSeq(done.log, 1, k)
        Did(op) == \E i \in 1..k : ops[i] = op
        After(file, before, after) ==
            IF Did(WriteOf(file)) THEN after
            ELSE IF Did(UnlinkOf(file)) THEN << >>
            ELSE before
    IN  [s EXCEPT !.chunkFiles = [b \in BatchNums |->
                      After(ChunkFileId(b), s.chunkFiles[b], done.chunkFiles[b])],
                  !.embFiles = [b \in BatchNums |->
                      After(EmbFileId(b), s.embFiles[b], done.embFiles[b])],
                  !.indexFile = After(IndexFileId, s.indexFile, done.indexFile),
                  !.written = {f \in done.written : Did(WriteOf(f))},
                  !.deleted = {f \in done.deleted : Did(UnlinkOf(f))},
                  !.log = ops]

\* The flush loop of save() over the keys chunksCache had on entry.
RECURSIVE FlushLoop(_, _)
FlushLoop(s, batchNums) ==
    IF batchNums = << >> THEN s
    ELSE LET batchNum == Head(batchNums)
             s1 == IF MapHas(s.chunksCache, batchNum)
                   THEN saveChunkBatch(s, batchNum, MapGet(s.chunksCache, batchNum))
                   ELSE s
             s2 == IF MapHas(s1.embeddingsCache, batchNum)
                   THEN saveEmbeddingBatch(s1, batchNum,
                                           MapGet(s1.embeddingsCache, batchNum))
                   ELSE s1
         IN  FlushLoop(s2, Tail(batchNums))

\* Mutant: the caches are cleared on the way out.
saveThrows_ClearsCaches(s, k, kind, torn) ==
    LET batchNums == MapKeys(s.chunksCache)
        s1 == FlushThrows(FlushLoop(s, SubSeq(batchNums, 1, k - 1)), batchNums[k],
                          kind, torn)
    IN  [s1 EXCEPT !.chunksCache = << >>, !.embeddingsCache = << >>]

\* save() leaving by the exception of the k-th batch it flushes: saveConfig,
\* saveIndex and the clearing of the caches are not executed.
saveThrows(s, k, kind, torn) ==
    LET batchNums == MapKeys(s.chunksCache)
    IN  FlushThrows(FlushLoop(s, SubSeq(batchNums, 1, k - 1)), batchNums[k],
                    kind, torn)

\* Mutant: the metadata files are written before the batches are flushed.
save_MetadataFirst(s) ==
    LET s0 == saveIndex(saveConfig(s))
        s1 == FlushLoop(s0, MapKeys(s0.chunksCache))
    IN  [s1 EXCEPT !.chunksCache = << >>, !.embeddingsCache = << >>]

save(s) ==
    LET s1 == saveIndex(saveConfig(FlushLoop(s, MapKeys(s.chunksCache))))
    IN  [s1 EXCEPT !.chunksCache = << >>, !.embeddingsCache = << >>]

\* The unlinks of clear(): every file of the chunks directory, then every
\* file of the embeddings directory.
RECURSIVE ClearLog(_, _, _)
ClearLog(s, kind, batchNum) ==
    IF batchNum > MaxBatch THEN << >>
    ELSE (IF kind = "chunks" /\ s.chunkFiles[batchNum] # << >>
          THEN <<UnlinkOf(ChunkFileId(batchNum))>>
          ELSE IF kind = "embeddings" /\ s.embFiles[batchNum] # << >>
          THEN <<UnlinkOf(EmbFileId(batchNum))>>
          ELSE << >>)
         \o ClearLog(s, kind, batchNum + 1)

\* Mutant: the reset index is not persisted.
clear_NoSaveIndex(s) ==
    [s EXCEPT !.chunkFiles = [b \in BatchNums |-> << >>],
              !.embFiles = [b \in BatchNums |-> << >>],
              !.index = createEmptyIndex,
              !.chunksCache = << >>,
              !.embeddingsCache = << >>]

clear(s) ==
    LET s1 == [s EXCEPT !.chunkFiles = [b \in BatchNums |-> << >>],
                        !.embFiles = [b \in BatchNums |-> << >>],
                        !.deleted = @ \cup {ChunkFileId(b) : b \in {n \in BatchNums :
                                                s.chunkFiles[n] # << >>}}
                                      \cup {EmbFileId(b) : b \in {n \in BatchNums :
                                                s.embFiles[n] # << >>}},
                        !.log = @ \o ClearLog(s, "chunks", 0)
                                  \o ClearLog(s, "embeddings", 0),
                        !.index = createEmptyIndex]
    IN  [saveIndex(s1) EXCEPT !.chunksCache = << >>, !.embeddingsCache = << >>]

RECURSIVE ConcatChunks(_, _, _)
ConcatChunks(s, batchNum, totalBatches) ==
    IF batchNum >= totalBatches THEN << >>
    ELSE loadChunkBatch(s, batchNum) \o ConcatChunks(s, batchNum + 1, totalBatches)

getChunks(s) == ConcatChunks(s, 0, CeilDiv(s.index.chunkCount))

RECURSIVE ConcatEmbeddings(_, _, _)
ConcatEmbeddings(s, batchNum, totalBatches) ==
    IF batchNum >= totalBatches THEN << >>
    ELSE loadEmbeddingBatch(s, batchNum) \o ConcatEmbeddings(s, batchNum + 1, totalBatches)

getEmbeddings(s) == ConcatEmbeddings(s, 0, CeilDiv(s.index.chunkCount))

hasData(s) == s.index.chunkCount > 0

\* new GraphStore(outputDir) on the directory of s: empty caches, config and
\* index read from their files.
Constructor(s) ==
    [s EXCEPT !.config = loadConfig(s.configFile),
              !.index = loadIndex(s.indexFile),
              !.chunksCache = << >>,
              !.embeddingsCache = << >>]

\* Mutant: the error of JSON.parse is not caught.
loadChunkBatchRaises_NoCatch(s, batchNum) ==
    /\ ~MapHas(s.chunksCache, batchNum)
    /\ s.chunkFiles[batchNum] # << >>
    /\ ParseThrows(s.chunkFiles[batchNum][1])

\* Whether loadChunkBatch leaves by an exception: the read and the parse are
\* inside try/catch, and the catch returns [].
loadChunkBatchRaises(s, batchNum) == FALSE

\* Whether loadEmbeddingBatch leaves by an exception: the read and the decode
\* are inside try/catch, and the catch returns [].
loadEmbeddingBatchRaises(s, batchNum) == FALSE

getChunksRaises(s) ==
    \E batchNum \in 0..(CeilDiv(s.index.chunkCount) - 1) :
        loadChunkBatchRaises(s, batchNum)

getEmbeddingsRaises(s) ==
    \E batchNum \in 0..(CeilDiv(s.index.chunkCount) - 1) :
        loadEmbeddingBatchRaises(s, batchNum)

\* Whether addChunk leaves by an exception of one of its two loads.
addChunkRaises(s) ==
    LET batchNum == getBatchNumber(s.index.chunkCount)
        s1 == evictOldCaches(s, batchNum)
    IN  loadChunkBatchRaises(s1, batchNum) \/ loadEmbeddingBatchRaises(s1, batchNum)

\* Mutant: the configuration is changed in memory only.
setConfig_NoSave(s, dimension, threshold) ==
    [s EXCEPT !.config.dimension = dimension, !.config.threshold = threshold]

\* setConfig(dimension, threshold): both fields are set, then saveConfig().
setConfig(s, dimension, threshold) ==
    saveConfig([s EXCEPT !.config.dimension = dimension,
                         !.config.threshold = threshold])

\* Mutant: a batch read from its file is inserted into the cache.
loadChunkBatchState_Caches(s, batchNum) ==
    IF MapHas(s.chunksCache, batchNum) \/ s.chunkFiles[batchNum] = << >> THEN s
    ELSE [s EXCEPT !.chunksCache = MapSet(@, batchNum, loadChunkBatch(s, batchNum))]

\* The instance after loadChunkBatch: the batch is returned and nothing is
\* assigned ("Don't cache yet").
loadChunkBatchState(s, batchNum) == s

\* The instance after loadEmbeddingBatch.
loadEmbeddingBatchState(s, batchNum) == s

\* The instance after the loop of getChunks().
RECURSIVE getChunksState(_, _, _)
getChunksState(s, batchNum, totalBatches) ==
    IF batchNum >= totalBatches THEN s
    ELSE getChunksState(loadChunkBatchState(s, batchNum), batchNum + 1, totalBatches)

\* The instance after the loop of getEmbeddings().
RECURSIVE getEmbeddingsState(_, _, _)
getEmbeddingsState(s, batchNum, totalBatches) ==
    IF batchNum >= totalBatches THEN s
    ELSE getEmbeddingsState(loadEmbeddingBatchState(s, batchNum), batchNum + 1,
                            totalBatches)

\* An optional argument: << >> when it is not given, <<x>> when it is x.
OrElse(argument, stored) == IF argument = << >> THEN stored ELSE argument[1]

\* Mutant: the dimension is checked before hasData().
buildGraphRAG_ChecksFirst(s, dimension, threshold) ==
    LET dim == OrElse(dimension, s.config.dimension)
    IN  IF dim = 0 THEN [kind |-> "throws", dimension |-> dim]
        ELSE IF ~hasData(s) THEN [kind |-> "null", dimension |-> dim]
        ELSE [kind |-> "graph", dimension |-> dim]

\* What buildGraphRAG(dimension, threshold) does: returns null, throws
\* "Graph dimension not set", or builds a graph of the effective dimension.
buildGraphRAG(s, dimension, threshold) ==
    LET dim == OrElse(dimension, s.config.dimension)
    IN  IF ~hasData(s) THEN [kind |-> "null", dimension |-> dim]
        ELSE IF dim = 0 THEN [kind |-> "throws", dimension |-> dim]
        ELSE [kind |-> "graph", dimension |-> dim]

(***************************************************************************)
(* The Embedder (embedder.ts) and its StateManager (state-manager.ts).    *)
(* A run discovers the text files of a directory, handles them in batches *)
(* of batchSize concurrent processFile calls, and records every stored    *)
(* file in .embedder-state.json.  The vector table, the chunker and the   *)
(* embedding model are outside the repository: their calls succeed or     *)
(* throw, by choice of the environment.  The graph store is not enabled   *)
(* here (enableGraph defaults to false), and the diff holds no deleted or *)
(* renamed file.                                                           *)
(***************************************************************************)
\* What discoverFiles() returns: the text files of the directory.
Paths == <<"a", "b", "c">>

PathSet == {Paths[i] : i \in 1..Len(Paths)}

\* The contents a file may have.
Contents == {1, 2}

\* options.batchSize, 10 by default.
batchSize == 2

\* crypto.createHash("sha256").update(content).digest("hex")
computeHash(content) == <<"sha256", content>>

\* The state of a StateManager that found no state file.
NoState == [files |-> [p \in PathSet |-> << >>], lastCommitHash |-> << >>]

loadState(file) == IF file = << >> THEN NoState ELSE file[1]

needsProcessing(state, filePath, content) ==
    LET existing == state.files[filePath]
    IN  IF existing = << >> THEN TRUE
        ELSE existing[1] # computeHash(content)

markProcessed(state, filePath, content) ==
    [state EXCEPT !.files[filePath] = <<computeHash(content)>>]

getLastCommitHash(state) == state.lastCommitHash

setLastCommitHash(state, commit) == [state EXCEPT !.lastCommitHash = <<commit>>]

\* git rev-parse --is-inside-work-tree succeeds.
isGitRepository(r) == r.git # "none"

\* git rev-parse HEAD, or null when it fails.
getCurrentCommitHash(r) == IF r.git = "ok" THEN <<r.head>> ELSE << >>

\* The files added or modified between two commits.
getChangedFiles(r, fromCommit, toCommit) ==
    SelectSeq(Paths, LAMBDA p : r.history[fromCommit][p] # r.history[toCommit][p])

\* Mutant: an unchanged commit is indexed by diff.
runIntelligent_NeverUpToDate(r, state) ==
    IF ~isGitRepository(r) THEN "full"
    ELSE IF getLastCommitHash(state) = << >> THEN "full"
    ELSE IF getCurrentCommitHash(r) = << >> THEN "full"
    ELSE "diff"

\* The path runIntelligent() takes: runFull(), runDiff(), or none.
runIntelligent(r, state) ==
    IF ~isGitRepository(r) THEN "full"
    ELSE IF getLastCommitHash(state) = << >> THEN "full"
    ELSE IF getCurrentCommitHash(r) = << >> THEN "full"
    ELSE IF getLastCommitHash(state) = getCurrentCommitHash(r) THEN "none"
    ELSE "diff"

\* How runDiff() goes on when options.fromCommit is not given: it throws,
\* falls back to runFull(), or indexes the diff.
runDiff(r, state) ==
    IF ~isGitRepository(r) THEN "throws"
    ELSE IF getLastCommitHash(state) = << >> THEN "full"
    ELSE IF getCurrentCommitHash(r) = << >> THEN "throws"
    ELSE "diff"

Modes == {"full", "diff", "intelligent"}

\* What run() ends up doing in a mode.
runPath(mode, r, state) ==
    IF mode = "full" THEN "full"
    ELSE IF mode = "diff" THEN runDiff(r, state)
    ELSE IF runIntelligent(r, state) = "diff" THEN runDiff(r, state)
    ELSE runIntelligent(r, state)

\* The stats of a new Embedder.
NoStats == [filesProcessed |-> 0, filesSkipped |-> 0, errors |-> 0, warnings |-> << >>]

\* The ways a processFile call ends in which chunking, embedding or storing
\* failed.
Failures == {"chunkFailed", "embedFailed", "storeFailed"}

\* No run: which tells whether the run is the first one on the directory or
\* the next one, phase where each processFile call is, content what it read,
\* outcome how it ended ("none" when there was no call, or it has not ended
\* yet), failedBefore the files whose processing failed in the run before,
\* console the functions console.warn and console.log are bound to (those of
\* the runtime, or the interceptors that the processFile call of a path
\* installed), originalWarn what each processFile call found and saved, and
\* before what console was when the current batch started.
OriginalConsole == "original"

NoRun == [pc |-> "idle", which |-> "none", mode |-> "full", selected |-> "full",
          path |-> "none", queue |-> << >>, i |-> 0, raised |-> FALSE,
          to |-> << >>,
          phase |-> [p \in PathSet |-> "idle"],
          content |-> [p \in PathSet |-> << >>],
          outcome |-> [p \in PathSet |-> "none"],
          failedBefore |-> {},
          console |-> OriginalConsole,
          originalWarn |-> [p \in PathSet |-> OriginalConsole],
          before |-> OriginalConsole]

\* The Embedder and the vector table as one record.
Embedder == [stateManager |-> stateManager, stats |-> stats, vectors |-> vectors,
             run |-> run]

InstallEmbedder(e) ==
    /\ stateManager' = e.stateManager
    /\ stats' = e.stats
    /\ vectors' = e.vectors
    /\ run' = e.run

\* stats.warnings.push of a message about filePath.
Warn(e, message, filePath) ==
    [e EXCEPT !.stats.warnings = Append(@, [message |-> message, path |-> filePath])]

\* The head of processFile: the current console.warn and console.log are
\* saved in the call's originalWarn and originalLog, and the call's own
\* interceptors are installed (both functions are always assigned together).
Intercept(e, filePath) ==
    [e EXCEPT !.run.originalWarn[filePath] = e.run.console,
              !.run.console = filePath]

\* processFile returns with an outcome; its finally block assigns what the
\* call saved back to console.warn and console.log.
Return(e, filePath, outcome) ==
    [e EXCEPT !.run.phase[filePath] = "done", !.run.outcome[filePath] = outcome,
              !.run.console = e.run.originalWarn[filePath]]

\* Mutant: a file that cannot be read counts as skipped.
processFileStart_CountsSkipped(e, filePath, readable, content) ==
    LET e1 == Intercept(e, filePath)
    IN  IF ~readable
        THEN Return([Warn(e1, "Cannot read", filePath) EXCEPT !.stats.filesSkipped = @ + 1],
                    filePath, "unreadable")
        ELSE IF ~needsProcessing(e1.stateManager, filePath, content)
        THEN Return([e1 EXCEPT !.stats.filesSkipped = @ + 1], filePath, "skipped")
        ELSE [e1 EXCEPT !.run.phase[filePath] = "chunking",
                        !.run.content[filePath] = <<content>>]

\* processFile up to its first await: the read, the resume check, and the
\* call of chunkDocument.
processFileStart(e, filePath, readable, content) ==
    LET e1 == Intercept(e, filePath)
    IN  IF ~readable
        THEN Return(Warn(e1, "Cannot read", filePath), filePath, "unreadable")
        ELSE IF ~needsProcessing(e1.stateManager, filePath, content)
        THEN Return([e1 EXCEPT !.stats.filesSkipped = @ + 1], filePath, "skipped")
        ELSE [e1 EXCEPT !.run.phase[filePath] = "chunking",
                        !.run.content[filePath] = <<content>>]

\* The catch of processFile around everything: the error is counted and
\* recorded as a warning, and processFile returns normally.
CatchAll(e, filePath, outcome) ==
    Return([Warn(e, "Error processing", filePath) EXCEPT !.stats.errors = @ + 1],
           filePath, outcome)

\* processFile from the end of chunkDocument to the call of embedMany; result
\* tells whether chunkDocument threw, returned no chunk, or returned chunks.
processFileChunked(e, filePath, result) ==
    IF result = "throws"
    THEN Return([Warn(e, "Failed to chunk", filePath) EXCEPT !.stats.errors = @ + 1],
                filePath, "chunkFailed")
    ELSE IF result = "empty"
    THEN Return(Warn(e, "No chunks generated", filePath), filePath, "noChunks")
    ELSE [e EXCEPT !.run.phase[filePath] = "embedding"]

\* deleteExistingVectors: the vectors of the source are deleted.
deleteExistingVectors(e, filePath) == [e EXCEPT !.vectors[filePath] = {}]

\* processFile from the end of embedMany to the call of createTable or
\* upsert.
processFileEmbedded(e, filePath, embedFails) ==
    IF embedFails THEN CatchAll(e, filePath, "embedFailed")
    ELSE [deleteExistingVectors(e, filePath) EXCEPT !.run.phase[filePath] = "storing"]

\* processFile from the end of createTable or upsert: markProcessed and the
\* counters.
processFileStored(e, filePath, storeFails) ==
    LET content == e.run.content[filePath][1]
    IN  IF storeFails THEN CatchAll(e, filePath, "storeFailed")
        ELSE Return([e EXCEPT !.vectors[filePath] = @ \cup {computeHash(content)},
                              !.stateManager = markProcessed(@, filePath, content),
                              !.stats.filesProcessed = @ + 1],
                    filePath, "processed")

\* The files of the batch of processBatch that starts at offset i.
BatchAt(queue, i) == SubSeq(queue, i + 1, Min(i + batchSize, Len(queue)))

\* batch.map(file => processFile(file)): every call runs up to its first
\* await, in the order of the batch.
RECURSIVE StartBatch(_, _, _, _, _)
StartBatch(e, batch, k, readable, r) ==
    IF k > Len(batch) THEN e
    ELSE StartBatch(processFileStart(e, batch[k], readable[batch[k]],
                                     r.content[batch[k]]),
                    batch, k + 1, readable, r)

\* A directory of three files with one content, outside git, in a repository
\* without a commit, or in one with a first commit; changed tells whether the
\* directory was changed after the first run.
InitRepos ==
    LET content == [p \in PathSet |-> 1]
    IN  {[git |-> "none", head |-> 0, history |-> << >>, content |-> content,
          changed |-> FALSE],
         [git |-> "nohead", head |-> 0, history |-> << >>, content |-> content,
          changed |-> FALSE],
         [git |-> "ok", head |-> 1, history |-> <<content>>, content |-> content,
          changed |-> FALSE]}

\* No Embedder has run on the directory.
InitEmbedder ==
    /\ vectors = [p \in PathSet |-> {}]
    /\ stateFile = << >>
    /\ stateManager = NoState
    /\ stats = NoStats
    /\ run = NoRun

(***************************************************************************)
(* The state machine: one instance on an initially empty directory, whose *)
(* owner called setConfig(Dimension, Threshold) right after constructing  *)
(* it (embedder.ts:50-57), then calls the public operations in any order. *)
(***************************************************************************)
\* count and cached record chunkCount and the cached batch numbers on entry.
\* The positions in which the owner calls the operations that write.
Live == {"ready", "reopened"}

\* No list of vectors is being encoded.
NoCodec == [stage |-> "none", vectors |-> << >>, buffer |-> << >>, decoded |-> << >>]

\* What a call that returns nothing, or that threw, leaves as its result.
NoResult == [kind |-> "none", dimension |-> 0]

\* raised tells whether the call threw, failed names the file whose write failed.
NoCall == [op |-> "new", chunk |-> GraphChunkData(0, ""), embedding |-> << >>,
           source |-> "", count |-> 0, cached |-> {}, raised |-> FALSE,
           failed |-> NoFile, dimension |-> << >>, threshold |-> << >>, result |-> NoResult]

Init ==
    /\ chunkFiles = [b \in BatchNums |-> << >>]
    /\ embFiles = [b \in BatchNums |-> << >>]
    /\ indexFile = << >>
    /\ config = [createEmptyConfig EXCEPT !.dimension = Dimension]
    /\ configFile = <<[createEmptyConfig EXCEPT !.dimension = Dimension]>>
    /\ chunksCache = << >>
    /\ embeddingsCache = << >>
    /\ index = createEmptyIndex
    /\ call = NoCall
    /\ written = {}
    /\ deleted = {}
    /\ log = << >>
    /\ added = << >>
    /\ touched = << >>
    /\ codec = NoCodec
    /\ pc = "ready"
    /\ repo \in {r \in InitRepos : r.git = "none"}
    /\ InitEmbedder

\* The touch order after a call that left the cache as chunksCacheAfter and
\* inserted into the cache, or appended to, the batches of touches, in order.
Touch(order, chunksCacheAfter, touches) ==
    SelectSeq(order, LAMBDA b : /\ MapHas(chunksCacheAfter, b)
                                /\ \A i \in 1..Len(touches) : touches[i] # b)
        \o touches

AddChunk ==
    \E in \in Inputs :
        /\ pc \in Live
        /\ index.chunkCount < MaxChunks
        /\ Install(addChunk(Cur, in.chunk, in.embedding))
        /\ call' = [op |-> "addChunk", chunk |-> in.chunk,
                    embedding |-> in.embedding, source |-> in.chunk.source,
                    count |-> index.chunkCount, cached |-> MapKeySet(chunksCache),
                    raised |-> FALSE, failed |-> NoFile, dimension |-> << >>, threshold |-> << >>,
                    result |-> NoResult]
        /\ added' = Append(added, in)
        /\ touched' = Touch(touched, addChunk(Cur, in.chunk, in.embedding).chunksCache,
                            <<getBatchNumber(index.chunkCount)>>)
        /\ UNCHANGED <<codec, embedderVars, pc>>

NotFromSource(in, source) == in.chunk.source # source

RemoveChunksBySource ==
    \E source \in Sources :
        /\ pc \in Live
        /\ Install(removeChunksBySource(Cur, source))
        /\ call' = [NoCall EXCEPT !.op = "removeChunksBySource", !.source = source,
                                  !.count = index.chunkCount,
                                  !.cached = MapKeySet(chunksCache)]
        /\ added' = SelectSeq(added, LAMBDA in : NotFromSource(in, source))
        /\ touched' = LET s == removeChunksBySource(Cur, source)
                      IN  IF s.written = {} THEN touched
                          ELSE [i \in 1..CeilDiv(s.index.chunkCount) |-> i - 1]
        /\ UNCHANGED <<codec, embedderVars, pc>>

Save ==
    /\ pc \in Live
    /\ Install(save(Cur))
    /\ call' = [NoCall EXCEPT !.op = "save", !.count = index.chunkCount,
                              !.cached = MapKeySet(chunksCache)]
    /\ added' = added
    /\ touched' = << >>
    /\ UNCHANGED <<codec, embedderVars, pc>>

Clear ==
    /\ pc \in Live
    /\ Install(clear(Cur))
    /\ call' = [NoCall EXCEPT !.op = "clear", !.count = index.chunkCount,
                              !.cached = MapKeySet(chunksCache)]
    /\ added' = << >>
    /\ touched' = << >>
    /\ UNCHANGED <<codec, embedderVars, pc>>

Next == AddChunk \/ RemoveChunksBySource \/ Save \/ Clear

Spec == Init /\ [][Next]_vars

(***************************************************************************)
(* The same machine with every batch number of the model filled: addChunk *)
(* is called until the last batch is full, with one record per source.    *)
(***************************************************************************)
Capacity == BATCH_SIZE * (MaxBatch + 1)

FullInputs == {in \in Inputs : (in.chunk.id = 1) <=> (in.chunk.source = "A")}

AddChunkFull ==
    \E in \in FullInputs :
        /\ pc \in Live
        /\ index.chunkCount < Capacity
        /\ Install(addChunk(Cur, in.chunk, in.embedding))
        /\ call' = [op |-> "addChunk", chunk |-> in.chunk,
                    embedding |-> in.embedding, source |-> in.chunk.source,
                    count |-> index.chunkCount, cached |-> MapKeySet(chunksCache),
                    raised |-> FALSE, failed |-> NoFile, dimension |-> << >>, threshold |-> << >>,
                    result |-> NoResult]
        /\ added' = Append(added, in)
        /\ touched' = Touch(touched, addChunk(Cur, in.chunk, in.embedding).chunksCache,
                            <<getBatchNumber(index.chunkCount)>>)
        /\ UNCHANGED <<codec, embedderVars, pc>>

NextFull == AddChunkFull \/ RemoveChunksBySource \/ Save \/ Clear

SpecFull == Init /\ [][NextFull]_vars

(***************************************************************************)
(* The same machine with records of a third source, which no removal of   *)
(* the model names: its records are what two removals leave behind.       *)
(***************************************************************************)
ThirdSource == "C"

AddChunkThird ==
    LET in == [chunk |-> GraphChunkData(2, ThirdSource), embedding |-> EmbeddingOf(2)]
    IN  /\ pc \in Live
        /\ index.chunkCount < MaxChunks
        /\ Install(addChunk(Cur, in.chunk, in.embedding))
        /\ call' = [op |-> "addChunk", chunk |-> in.chunk,
                    embedding |-> in.embedding, source |-> in.chunk.source,
                    count |-> index.chunkCount, cached |-> MapKeySet(chunksCache),
                    raised |-> FALSE, failed |-> NoFile, dimension |-> << >>,
                    threshold |-> << >>, result |-> NoResult]
        /\ added' = Append(added, in)
        /\ touched' = Touch(touched, addChunk(Cur, in.chunk, in.embedding).chunksCache,
                            <<getBatchNumber(index.chunkCount)>>)
        /\ UNCHANGED <<codec, embedderVars, pc>>

NextThree == AddChunkFull \/ AddChunkThird \/ RemoveChunksBySource \/ Save \/ Clear

SpecThree == Init /\ [][NextThree]_vars

(***************************************************************************)
(* The same full machine on a file system whose writes of batch files may *)
(* fail: fs.writeFileSync throws during the eviction of addChunk or       *)
(* during the flush of save(), and the caller goes on using the instance. *)
(***************************************************************************)
FileKinds == {"chunks", "embeddings"}

AddChunkThrows ==
    \E in \in FullInputs, kind \in FileKinds, torn \in BOOLEAN :
        /\ pc \in Live
        /\ index.chunkCount < Capacity
        /\ Len(chunksCache) >= MAX_CACHED_BATCHES
        /\ \E k \in 1..Len(ToEvict(Cur, getBatchNumber(index.chunkCount))) :
              LET s == addChunkThrows(Cur, in.chunk, in.embedding, k, kind, torn)
                  batchNum == ToEvict(Cur, getBatchNumber(index.chunkCount))[k]
              IN  /\ Install(s)
                  /\ call' = [op |-> "addChunk", chunk |-> in.chunk,
                              embedding |-> in.embedding, source |-> in.chunk.source,
                              count |-> index.chunkCount,
                              cached |-> MapKeySet(chunksCache), raised |-> TRUE,
                              failed |-> IF kind = "chunks" THEN ChunkFileId(batchNum)
                                         ELSE EmbFileId(batchNum),
                              dimension |-> << >>, threshold |-> << >>, result |-> NoResult]
                  /\ touched' = Touch(touched, s.chunksCache, << >>)
        /\ added' = added
        /\ UNCHANGED <<codec, embedderVars, pc>>

SaveThrows ==
    \E kind \in FileKinds, torn \in BOOLEAN, k \in 1..Len(chunksCache) :
        LET s == saveThrows(Cur, k, kind, torn)
            batchNum == MapKeys(chunksCache)[k]
        IN  /\ pc \in Live
            /\ Install(s)
            /\ call' = [NoCall EXCEPT !.op = "save", !.count = index.chunkCount,
                                      !.cached = MapKeySet(chunksCache),
                                      !.raised = TRUE,
                                      !.failed = IF kind = "chunks"
                                                 THEN ChunkFileId(batchNum)
                                                 ELSE EmbFileId(batchNum)]
            /\ touched' = touched
            /\ added' = added
            /\ UNCHANGED <<codec, embedderVars, pc>>

NextFail ==
    \/ AddChunkFull \/ RemoveChunksBySource \/ Save \/ Clear
    \/ AddChunkThrows \/ SaveThrows

SpecFail == Init /\ [][NextFail]_vars

(***************************************************************************)
(* The machine over two runs of its owner, on a directory of which one    *)
(* file may be damaged between the runs.  A run ends after a save() that  *)
(* left the cache empty (embedder.ts:377-384); the second run constructs  *)
(* a new instance and calls setConfig with the dimension of its vectors   *)
(* before it adds, removes, saves or clears (embedder.ts:50-57).          *)
(***************************************************************************)
\* Two batches, the second one not full.
MaxSmall == BATCH_SIZE + 1

Thresholds == {Threshold, Threshold + 1}

\* What is left of an embedding file cut short: nothing, or all but its last
\* word.
Truncations(buffer) == {SubSeq(buffer, 1, k) : k \in {0, Len(buffer) - 1}}

\* A config.json that is not JSON text, or that another version wrote.
DamagedConfigs == {Unparsable, [createEmptyConfig EXCEPT !.version = "2.0",
                                                         !.dimension = Dimension]}

ChunkFileDamaged(b) == chunkFiles[b] # << >> /\ ParseThrows(chunkFiles[b][1])

EmbFileDamaged(b) == embFiles[b] # << >> /\ DecodeThrows(embFiles[b][1], Dimension)

IndexDamaged == indexFile # << >> /\ JsonParseThrows(indexFile[1])

ConfigDamaged == configFile # << >> /\ loadConfig(configFile) # configFile[1]

\* The number of files of the directory that are damaged.
Damaged ==
    Cardinality({b \in BatchNums : ChunkFileDamaged(b)})
        + Cardinality({b \in BatchNums : EmbFileDamaged(b)})
        + (IF IndexDamaged THEN 1 ELSE 0) + (IF ConfigDamaged THEN 1 ELSE 0)

\* The process of the owner ends; the instance is gone.
Exit ==
    /\ pc = "ready"
    /\ chunksCache = << >>
    /\ pc' = "closed"
    /\ call' = [NoCall EXCEPT !.op = "exit"]
    /\ written' = {} /\ deleted' = {} /\ log' = << >>
    /\ UNCHANGED <<chunkFiles, embFiles, indexFile, configFile, chunksCache,
                   embeddingsCache, index, config, added, touched, codec, embedderVars>>

Construct ==
    /\ pc = "closed"
    /\ Install(Constructor(Cur))
    /\ call' = [NoCall EXCEPT !.op = "constructor", !.count = index.chunkCount,
                              !.cached = MapKeySet(chunksCache),
                              !.raised = loadConfigRaises(configFile)
                                             \/ loadIndexRaises(indexFile)]
    /\ pc' = "constructed"
    /\ touched' = << >>
    /\ UNCHANGED <<added, codec, embedderVars>>

SetConfig ==
    \E threshold \in Thresholds :
        /\ pc = "constructed"
        /\ Install(setConfig(Cur, Dimension, threshold))
        /\ call' = [NoCall EXCEPT !.op = "setConfig", !.count = index.chunkCount,
                                  !.cached = MapKeySet(chunksCache),
                                  !.dimension = <<Dimension>>,
                                  !.threshold = <<threshold>>]
        /\ pc' = "reopened"
        /\ UNCHANGED <<added, touched, codec, embedderVars>>

DamageChunkFile ==
    \E b \in BatchNums :
        /\ pc = "closed"
        /\ Damaged = 0
        /\ chunkFiles[b] # << >>
        /\ chunkFiles' = [chunkFiles EXCEPT ![b] = <<Unparsable>>]
        /\ UNCHANGED <<embFiles, indexFile, configFile, chunksCache, embeddingsCache,
                       index, config, call, written, deleted, log, added, touched,
                       codec, embedderVars, pc>>

DamageEmbeddingFile ==
    \E b \in BatchNums :
        /\ pc = "closed"
        /\ Damaged = 0
        /\ embFiles[b] # << >>
        /\ \E buffer \in Truncations(embFiles[b][1]) :
              embFiles' = [embFiles EXCEPT ![b] = <<buffer>>]
        /\ UNCHANGED <<chunkFiles, indexFile, configFile, chunksCache, embeddingsCache,
                       index, config, call, written, deleted, log, added, touched,
                       codec, embedderVars, pc>>

DamageIndex ==
    /\ pc = "closed"
    /\ Damaged = 0
    /\ indexFile # << >>
    /\ indexFile' = <<Unparsable>>
    /\ UNCHANGED <<chunkFiles, embFiles, configFile, chunksCache, embeddingsCache,
                   index, config, call, written, deleted, log, added, touched,
                   codec, embedderVars, pc>>

DamageConfig ==
    /\ pc = "closed"
    /\ Damaged = 0
    /\ configFile # << >>
    /\ \E content \in DamagedConfigs : configFile' = <<content>>
    /\ UNCHANGED <<chunkFiles, embFiles, indexFile, chunksCache, embeddingsCache,
                   index, config, call, written, deleted, log, added, touched,
                   codec, embedderVars, pc>>

GetChunks ==
    /\ pc # "closed"
    /\ Install(getChunksState(Cur, 0, CeilDiv(index.chunkCount)))
    /\ call' = [NoCall EXCEPT !.op = "getChunks", !.count = index.chunkCount,
                              !.cached = MapKeySet(chunksCache),
                              !.raised = getChunksRaises(Cur)]
    /\ UNCHANGED <<added, touched, codec, embedderVars, pc>>

GetEmbeddings ==
    /\ pc # "closed"
    /\ Install(getEmbeddingsState(Cur, 0, CeilDiv(index.chunkCount)))
    /\ call' = [NoCall EXCEPT !.op = "getEmbeddings", !.count = index.chunkCount,
                              !.cached = MapKeySet(chunksCache),
                              !.raised = getEmbeddingsRaises(Cur)]
    /\ UNCHANGED <<added, touched, codec, embedderVars, pc>>

HasData ==
    /\ pc # "closed"
    /\ Install(Cur)
    /\ call' = [NoCall EXCEPT !.op = "hasData", !.count = index.chunkCount,
                              !.cached = MapKeySet(chunksCache)]
    /\ UNCHANGED <<added, touched, codec, embedderVars, pc>>

GetStats ==
    /\ pc # "closed"
    /\ Install(Cur)
    /\ call' = [NoCall EXCEPT !.op = "getStats", !.count = index.chunkCount,
                              !.cached = MapKeySet(chunksCache)]
    /\ UNCHANGED <<added, touched, codec, embedderVars, pc>>

GetConfig ==
    /\ pc # "closed"
    /\ Install(Cur)
    /\ call' = [NoCall EXCEPT !.op = "getConfig", !.count = index.chunkCount,
                              !.cached = MapKeySet(chunksCache)]
    /\ UNCHANGED <<added, touched, codec, embedderVars, pc>>

BuildGraphRAG ==
    \E dimension \in {<< >>, <<0>>, <<Dimension>>} :
        LET result == buildGraphRAG(Cur, dimension, << >>)
        IN  /\ pc # "closed"
            /\ Install(IF result.kind = "graph"
                       THEN getEmbeddingsState(
                                getChunksState(Cur, 0, CeilDiv(index.chunkCount)),
                                0, CeilDiv(index.chunkCount))
                       ELSE Cur)
            /\ call' = [NoCall EXCEPT !.op = "buildGraphRAG",
                                      !.count = index.chunkCount,
                                      !.cached = MapKeySet(chunksCache),
                                      !.dimension = dimension,
                                      !.raised = (result.kind = "throws"),
                                      !.result = result]
            /\ UNCHANGED <<added, touched, codec, embedderVars, pc>>

\* addChunk on a store of at most MaxSmall records.
AddChunkSmall ==
    \E in \in FullInputs :
        /\ pc \in Live
        /\ index.chunkCount < MaxSmall
        /\ ~addChunkRaises(Cur)
        /\ Install(addChunk(Cur, in.chunk, in.embedding))
        /\ call' = [op |-> "addChunk", chunk |-> in.chunk,
                    embedding |-> in.embedding, source |-> in.chunk.source,
                    count |-> index.chunkCount, cached |-> MapKeySet(chunksCache),
                    raised |-> FALSE, failed |-> NoFile, dimension |-> << >>, threshold |-> << >>,
                    result |-> NoResult]
        /\ added' = Append(added, in)
        /\ touched' = Touch(touched, addChunk(Cur, in.chunk, in.embedding).chunksCache,
                            <<getBatchNumber(index.chunkCount)>>)
        /\ UNCHANGED <<codec, embedderVars, pc>>

NextDamage ==
    \/ AddChunkSmall \/ RemoveChunksBySource \/ Save \/ Clear
    \/ Exit \/ Construct \/ SetConfig
    \/ DamageChunkFile \/ DamageEmbeddingFile \/ DamageIndex \/ DamageConfig
    \/ GetChunks \/ GetEmbeddings \/ BuildGraphRAG

SpecDamage == Init /\ [][NextDamage]_vars

NextRead ==
    \/ AddChunkFull \/ RemoveChunksBySource \/ Save \/ Clear
    \/ GetChunks \/ GetEmbeddings \/ HasData \/ GetStats \/ GetConfig
    \/ BuildGraphRAG

SpecRead == Init /\ [][NextRead]_vars

(***************************************************************************)
(* The machine over two runs of which the second one is configured with   *)
(* an embedding model of another dimension: the constructor of the        *)
(* Embedder calls setConfig with the dimension of its options on whatever *)
(* the directory holds (embedder.ts:50-57), and the vectors it then adds  *)
(* have that dimension.                                                    *)
(***************************************************************************)
\* A dimension below and one above the dimension of the first run.
OtherDimensions == {Dimension - 1, Dimension + 1}

\* The vector the embedding producer of the given dimension returns.
EmbeddingOfDimension(id, dimension) ==
    [j \in 1..dimension |-> IF id = 1 THEN 2 * j ELSE 2 * j + 5]

\* addChunk by the first instance, with vectors of Dimension components.
AddChunkOld == pc = "ready" /\ AddChunkSmall

SetConfigOther ==
    \E dimension \in OtherDimensions :
        /\ pc = "constructed"
        /\ Install(setConfig(Cur, dimension, Threshold))
        /\ call' = [NoCall EXCEPT !.op = "setConfig", !.count = index.chunkCount,
                                  !.cached = MapKeySet(chunksCache),
                                  !.dimension = <<dimension>>,
                                  !.threshold = <<Threshold>>]
        /\ pc' = "reopened"
        /\ UNCHANGED <<added, touched, codec, embedderVars>>

\* addChunk by the second instance, with vectors of the dimension it was
\* configured with.
AddChunkResized ==
    \E in \in FullInputs :
        LET embedding == EmbeddingOfDimension(in.chunk.id, config.dimension)
        IN  /\ pc = "reopened"
            /\ index.chunkCount < MaxSmall
            /\ Install(addChunk(Cur, in.chunk, embedding))
            /\ call' = [op |-> "addChunk", chunk |-> in.chunk,
                        embedding |-> embedding, source |-> in.chunk.source,
                        count |-> index.chunkCount, cached |-> MapKeySet(chunksCache),
                        raised |-> FALSE, failed |-> NoFile, dimension |-> << >>,
                        threshold |-> << >>, result |-> NoResult]
            /\ added' = Append(added, [chunk |-> in.chunk, embedding |-> embedding])
            /\ touched' = Touch(touched, addChunk(Cur, in.chunk, embedding).chunksCache,
                                <<getBatchNumber(index.chunkCount)>>)
            /\ UNCHANGED <<codec, embedderVars, pc>>

NextResize ==
    \/ AddChunkOld \/ Save \/ Exit \/ Construct \/ SetConfigOther \/ AddChunkResized

SpecResize == Init /\ [][NextResize]_vars

(***************************************************************************)
(* The machine whose process may stop at any point: between two calls     *)
(* with whatever the cache holds unsaved, or inside a removal between two *)
(* of its file operations; the instance and what it cached are gone.  A   *)
(* new instance is then constructed on the directory as it was left.      *)
(***************************************************************************)
\* The process stops between two calls, without a save().
Stop ==
    /\ pc = "ready"
    /\ pc' = "closed"
    /\ call' = [NoCall EXCEPT !.op = "stop", !.count = index.chunkCount,
                              !.cached = MapKeySet(chunksCache)]
    /\ chunksCache' = << >> /\ embeddingsCache' = << >>
    /\ written' = {} /\ deleted' = {} /\ log' = << >>
    /\ added' = << >> /\ touched' = << >>
    /\ UNCHANGED <<chunkFiles, embFiles, indexFile, configFile, index, config,
                   codec, embedderVars>>

\* The process stops inside removeChunksBySource(source), after at least one
\* and before the last of its file operations.
RemoveInterrupted ==
    \E source \in Sources :
        \E k \in 1..(Len(removeChunksBySource(Cur, source).log) - 1) :
            /\ pc = "ready"
            /\ Install([removeChunksBySourceUntil(Cur, source, k)
                           EXCEPT !.chunksCache = << >>, !.embeddingsCache = << >>])
            /\ call' = [NoCall EXCEPT !.op = "interrupted", !.source = source,
                                      !.count = index.chunkCount,
                                      !.cached = MapKeySet(chunksCache)]
            /\ pc' = "closed"
            /\ added' = << >> /\ touched' = << >>
            /\ UNCHANGED <<codec, embedderVars>>

\* addChunk by the first instance.
AddChunkFirst == pc = "ready" /\ AddChunk

\* addChunk by the instance that was constructed after the stop.
AddChunkNext == pc = "reopened" /\ AddChunkSmall

NextStop ==
    \/ AddChunkFirst \/ AddChunkNext \/ RemoveChunksBySource \/ Save \/ Clear
    \/ Stop \/ RemoveInterrupted \/ Construct \/ SetConfig

SpecStop == Init /\ [][NextStop]_vars

\* The same, for an owner that only adds and saves and a process that stops
\* between two calls.
NextLag ==
    \/ AddChunkFirst \/ AddChunkNext \/ Save \/ Stop \/ Construct \/ SetConfig

SpecLag == Init /\ [][NextLag]_vars

(***************************************************************************)
(* A first run of the Embedder on a directory and the next one, between   *)
(* which the directory may change once.  A run is one process: it         *)
(* constructs an Embedder, which loads the state file, and calls run().   *)
(* The graph store is not used.                                            *)
(***************************************************************************)
InitRun ==
    /\ chunkFiles = [b \in BatchNums |-> << >>]
    /\ embFiles = [b \in BatchNums |-> << >>]
    /\ indexFile = << >>
    /\ config = [createEmptyConfig EXCEPT !.dimension = Dimension]
    /\ configFile = <<[createEmptyConfig EXCEPT !.dimension = Dimension]>>
    /\ chunksCache = << >>
    /\ embeddingsCache = << >>
    /\ index = createEmptyIndex
    /\ call = NoCall
    /\ written = {}
    /\ deleted = {}
    /\ log = << >>
    /\ added = << >>
    /\ touched = << >>
    /\ codec = NoCodec
    /\ pc = "ready"
    /\ repo \in InitRepos
    /\ InitEmbedder

\* new Embedder(options) and run() up to processBatch: the mode decides what
\* is indexed; runDiff() returns at once when the diff is empty.
RunStart ==
    \E mode \in Modes :
        LET state == loadState(stateFile)
            path == runPath(mode, repo, state)
            queue == IF path = "full" THEN Paths
                     ELSE IF path = "diff"
                     THEN getChangedFiles(repo, getLastCommitHash(state)[1],
                                          getCurrentCommitHash(repo)[1])
                     ELSE << >>
        IN  /\ run.pc = "idle"
            /\ run.which \in {"none", "first"}
            /\ stateManager' = state
            /\ stats' = NoStats
            /\ run' = [NoRun EXCEPT
                          !.which = IF run.which = "none" THEN "first" ELSE "next",
                          !.mode = mode,
                          !.selected = IF mode = "intelligent"
                                       THEN runIntelligent(repo, state) ELSE mode,
                          !.path = path,
                          !.queue = queue,
                          !.pc = IF queue = << >> THEN "idle" ELSE "batch",
                          !.raised = (path = "throws"),
                          !.to = IF path = "diff" THEN getCurrentCommitHash(repo)
                                 ELSE << >>,
                          !.failedBefore = {p \in PathSet : run.outcome[p] \in Failures}]
            /\ UNCHANGED <<repo, vectors, stateFile, codec>>
            /\ UNCHANGED storeVars

\* processBatch takes the next batchSize files and starts their processFile
\* calls; each read succeeds or fails.
BatchStart ==
    LET batch == BatchAt(run.queue, run.i)
    IN  \E readable \in [{batch[k] : k \in 1..Len(batch)} -> BOOLEAN] :
            /\ run.pc = "batch"
            /\ InstallEmbedder([StartBatch(Embedder, batch, 1, readable, repo)
                                   EXCEPT !.run.pc = "await",
                                          !.run.before = run.console])
            /\ UNCHANGED <<repo, stateFile, codec>>
            /\ UNCHANGED storeVars

\* chunkDocument of a file ends.
Chunked ==
    \E p \in PathSet, result \in {"throws", "empty", "ok"} :
        /\ run.pc = "await"
        /\ run.phase[p] = "chunking"
        /\ InstallEmbedder(processFileChunked(Embedder, p, result))
        /\ UNCHANGED <<repo, stateFile, codec>>
        /\ UNCHANGED storeVars

\* embedMany of a file ends.
Embedded ==
    \E p \in PathSet, embedFails \in BOOLEAN :
        /\ run.pc = "await"
        /\ run.phase[p] = "embedding"
        /\ InstallEmbedder(processFileEmbedded(Embedder, p, embedFails))
        /\ UNCHANGED <<repo, stateFile, codec>>
        /\ UNCHANGED storeVars

\* createTable or upsert of a file ends.
Stored ==
    \E p \in PathSet, storeFails \in BOOLEAN :
        /\ run.pc = "await"
        /\ run.phase[p] = "storing"
        /\ InstallEmbedder(processFileStored(Embedder, p, storeFails))
        /\ UNCHANGED <<repo, stateFile, codec>>
        /\ UNCHANGED storeVars

\* Promise.all of the batch resolves: saveState(), then the next batch or
\* the end of processBatch.
BatchEnd ==
    LET batch == BatchAt(run.queue, run.i)
    IN  /\ run.pc = "await"
        /\ \A k \in 1..Len(batch) : run.phase[batch[k]] = "done"
        /\ stateFile' = <<stateManager>>
        /\ run' = [run EXCEPT !.i = @ + batchSize,
                              !.pc = IF run.i + batchSize >= Len(run.queue)
                                     THEN "finish" ELSE "batch"]
        /\ UNCHANGED <<repo, vectors, stateManager, stats, codec>>
        /\ UNCHANGED storeVars

\* The end of runFull() or runDiff(): the commit is recorded and the state
\* saved.
RunFinish ==
    LET currentCommit == getCurrentCommitHash(repo)
        state == IF run.path = "diff"
                 THEN setLastCommitHash(stateManager, run.to[1])
                 ELSE IF isGitRepository(repo) /\ currentCommit # << >>
                 THEN setLastCommitHash(stateManager, currentCommit[1])
                 ELSE stateManager
    IN  /\ run.pc = "finish"
        /\ stateManager' = state
        /\ stateFile' = <<state>>
        /\ run' = [run EXCEPT !.pc = "idle"]
        /\ UNCHANGED <<repo, vectors, stats, codec>>
        /\ UNCHANGED storeVars

\* Between the two runs a file of a repository is changed and committed.
Commit ==
    \E p \in PathSet, c \in Contents :
        /\ run.pc = "idle" /\ run.which = "first" /\ ~repo.changed
        /\ isGitRepository(repo)
        /\ c # repo.content[p]
        /\ repo' = [repo EXCEPT !.changed = TRUE,
                                !.git = "ok",
                                !.head = @ + 1,
                                !.content[p] = c,
                                !.history = Append(@, [repo.content EXCEPT ![p] = c])]
        /\ UNCHANGED <<vectors, stateFile, stateManager, stats, run, codec>>
        /\ UNCHANGED storeVars

\* Between the two runs a file of a directory outside git is changed.
Edit ==
    \E p \in PathSet, c \in Contents :
        /\ run.pc = "idle" /\ run.which = "first" /\ ~repo.changed
        /\ ~isGitRepository(repo)
        /\ c # repo.content[p]
        /\ repo' = [repo EXCEPT !.changed = TRUE, !.content[p] = c]
        /\ UNCHANGED <<vectors, stateFile, stateManager, stats, run, codec>>
        /\ UNCHANGED storeVars

\* Between the two runs HEAD stops resolving to a commit.
LoseHead ==
    /\ run.pc = "idle" /\ run.which = "first" /\ ~repo.changed
    /\ repo.git = "ok"
    /\ repo' = [repo EXCEPT !.changed = TRUE, !.git = "nohead"]
    /\ UNCHANGED <<vectors, stateFile, stateManager, stats, run, codec>>
    /\ UNCHANGED storeVars

NextRun ==
    \/ RunStart \/ BatchStart \/ Chunked \/ Embedded \/ Stored \/ BatchEnd
    \/ RunFinish \/ Commit \/ Edit \/ LoseHead

SpecRun == InitRun /\ [][NextRun]_vars

(***************************************************************************)
(* The Embedder with the graph enabled, on a directory outside git: the   *)
(* processFile calls also fill the graph store, processBatch saves it     *)
(* every GraphSaveEvery batches, and buildKnowledgeGraph() saves it at    *)
(* the end of the run.  chunkDocument yields one chunk per file.          *)
(***************************************************************************)
\* processBatch saves the graph store when i % (batchSize * 10) === 0.
GraphSaveEvery == 10

\* Whether the store holds a record of the source.
hasChunksForSource(s, source) ==
    \E i \in 1..Len(getChunks(s)) : getChunks(s)[i].source = source

\* The chunk and the vector of a file.
GraphInput(filePath) == [chunk |-> GraphChunkData(1, filePath), embedding |-> EmbeddingOf(1)]

\* processFile between deleteExistingVectors and createTable or upsert: the
\* old records of the file are removed when it has some, then its chunks are
\* added.
processFileGraph(s, filePath) ==
    LET s1 == IF hasChunksForSource(s, filePath)
              THEN removeChunksBySource(s, filePath) ELSE s
    IN  addChunk(s1, GraphInput(filePath).chunk, GraphInput(filePath).embedding)

\* embedMany of a file ends, with the graph enabled.
EmbeddedGraph ==
    \E p \in PathSet, embedFails \in BOOLEAN :
        /\ run.pc = "await"
        /\ run.phase[p] = "embedding"
        /\ index.chunkCount < MaxChunks
        /\ InstallEmbedder(processFileEmbedded(Embedder, p, embedFails))
        /\ IF embedFails
           THEN UNCHANGED <<chunkFiles, embFiles, indexFile, configFile, chunksCache,
                           embeddingsCache, index, config, call, written, deleted,
                           log, added, touched>>
           ELSE LET removed == IF hasChunksForSource(Cur, p)
                               THEN removeChunksBySource(Cur, p) ELSE Cur
                    after == processFileGraph(Cur, p)
                IN  /\ Install(after)
                    /\ call' = [NoCall EXCEPT !.op = "addChunk",
                                              !.chunk = GraphInput(p).chunk,
                                              !.embedding = GraphInput(p).embedding,
                                              !.source = p,
                                              !.count = index.chunkCount,
                                              !.cached = MapKeySet(chunksCache)]
                    /\ added' = Append(SelectSeq(added, LAMBDA in : NotFromSource(in, p)),
                                       GraphInput(p))
                    /\ touched' = Touch(IF removed.written = {} THEN touched
                                        ELSE [i \in 1..CeilDiv(removed.index.chunkCount) |->
                                                 i - 1],
                                        after.chunksCache,
                                        <<getBatchNumber(removed.index.chunkCount)>>)
        /\ UNCHANGED <<repo, stateFile, codec, pc>>

\* Promise.all of the batch resolves, with the graph enabled: saveState(),
\* then graphStore.save() in the batches that start at a multiple of
\* batchSize * 10.
BatchEndGraph ==
    LET batch == BatchAt(run.queue, run.i)
    IN  /\ run.pc = "await"
        /\ \A k \in 1..Len(batch) : run.phase[batch[k]] = "done"
        /\ stateFile' = <<stateManager>>
        /\ run' = [run EXCEPT !.i = @ + batchSize,
                              !.pc = IF run.i + batchSize >= Len(run.queue)
                                     THEN "finish" ELSE "batch"]
        /\ IF run.i % (batchSize * GraphSaveEvery) = 0
           THEN /\ Install(save(Cur))
                /\ call' = [NoCall EXCEPT !.op = "save", !.count = index.chunkCount,
                                          !.cached = MapKeySet(chunksCache)]
                /\ touched' = << >>
           ELSE UNCHANGED <<chunkFiles, embFiles, indexFile, configFile, chunksCache,
                           embeddingsCache, index, config, call, written, deleted,
                           log, touched>>
        /\ UNCHANGED <<repo, vectors, stateManager, stats, codec, added, pc>>

\* The end of runFull() with the graph enabled: buildKnowledgeGraph() saves
\* the graph store when it holds records, then the state is saved.
RunFinishGraph ==
    LET currentCommit == getCurrentCommitHash(repo)
        state == IF run.path = "diff"
                 THEN setLastCommitHash(stateManager, run.to[1])
                 ELSE IF isGitRepository(repo) /\ currentCommit # << >>
                 THEN setLastCommitHash(stateManager, currentCommit[1])
                 ELSE stateManager
    IN  /\ run.pc = "finish"
        /\ IF hasData(Cur)
           THEN /\ Install(save(Cur))
                /\ call' = [NoCall EXCEPT !.op = "save", !.count = index.chunkCount,
                                          !.cached = MapKeySet(chunksCache)]
                /\ touched' = << >>
           ELSE UNCHANGED <<chunkFiles, embFiles, indexFile, configFile, chunksCache,
                           embeddingsCache, index, config, call, written, deleted,
                           log, touched>>
        /\ stateManager' = state
        /\ stateFile' = <<state>>
        /\ run' = [run EXCEPT !.pc = "idle"]
        /\ UNCHANGED <<repo, vectors, stats, codec, added, pc>>

NextGraph ==
    \/ RunStart \/ BatchStart \/ Chunked \/ EmbeddedGraph \/ Stored
    \/ BatchEndGraph \/ RunFinishGraph

SpecGraph == Init /\ [][NextGraph]_vars

(***************************************************************************)
(* The codec on its own: a list of up to MaxVectors vectors of the        *)
(* configured dimension is encoded, then the buffer is decoded.           *)
(***************************************************************************)
\* A vector with a component that is not a single-precision value next to
\* components that are.
MixedVector == [j \in 1..Dimension |-> IF j = 1 THEN 2 * j + 1 ELSE 2 * j]

Vectors == {EmbeddingOf(i) : i \in Ids} \cup {MixedVector}

VectorLists == UNION {[1..n -> Vectors] : n \in 0..MaxVectors}

InitCodec ==
    /\ chunkFiles = [b \in BatchNums |-> << >>]
    /\ embFiles = [b \in BatchNums |-> << >>]
    /\ indexFile = << >>
    /\ config = [createEmptyConfig EXCEPT !.dimension = Dimension]
    /\ configFile = <<[createEmptyConfig EXCEPT !.dimension = Dimension]>>
    /\ chunksCache = << >>
    /\ embeddingsCache = << >>
    /\ index = createEmptyIndex
    /\ call = NoCall
    /\ written = {}
    /\ deleted = {}
    /\ log = << >>
    /\ added = << >>
    /\ touched = << >>
    /\ codec \in {[NoCodec EXCEPT !.stage = "input", !.vectors = vs] : vs \in VectorLists}
    /\ pc = "ready"
    /\ repo \in {r \in InitRepos : r.git = "none"}
    /\ InitEmbedder

Encode ==
    /\ codec.stage = "input"
    /\ codec' = [codec EXCEPT !.stage = "encoded",
                              !.buffer = encodeEmbeddings(codec.vectors,
                                                          config.dimension)]
    /\ UNCHANGED storeVars
    /\ UNCHANGED embedderVars

Decode ==
    /\ codec.stage = "encoded"
    /\ ~DecodeThrows(codec.buffer, config.dimension)
    /\ codec' = [codec EXCEPT !.stage = "decoded",
                              !.decoded = decodeEmbeddings(codec.buffer,
                                                           config.dimension)]
    /\ UNCHANGED storeVars
    /\ UNCHANGED embedderVars

NextCodec == Encode \/ Decode

SpecCodec == InitCodec /\ [][NextCodec]_vars

(***************************************************************************)
(* Observations used by the properties.                                    *)
(***************************************************************************)
\* What a store instance constructed now on the same directory would be.
Fresh == Constructor(Cur)

AddedChunks == [i \in 1..Len(added) |-> added[i].chunk]

AddedEmbeddings == [i \in 1..Len(added) |-> added[i].embedding]

\* Batch numbers that have a file of either kind.
OnDisk == {b \in BatchNums : chunkFiles[b] # << >> \/ embFiles[b] # << >>}

\* Batches that left the cache during the step.
Evicted == MapKeySet(chunksCache) \ MapKeySet(chunksCache')

ChunkFilesWritten == {f \in written : f.kind = "chunks"}

(***************************************************************************)
(* C1 (as stated): after save(), a fresh instance on the same directory   *)
(* returns exactly the records and the vectors that were added, in order. *)
(***************************************************************************)
C1_AsStated ==
    call.op = "save" =>
        /\ getChunks(Fresh) = AddedChunks
        /\ getEmbeddings(Fresh) = AddedEmbeddings

(***************************************************************************)
(* C1 (amended): after save(), a fresh instance on the same directory     *)
(* returns the added records in insertion order, and the added vectors in *)
(* the same order with every component rounded to single precision.       *)
(***************************************************************************)
C1_RoundTrip ==
    call.op = "save" =>
        /\ getChunks(Fresh) = AddedChunks
        /\ getEmbeddings(Fresh) = RoundVectors(AddedEmbeddings)

\* A save of more batches than the cache holds, some written by eviction
\* before the save, with vectors of both kinds.
C1_Witness ==
    /\ call.op = "save"
    /\ Len(added) > BATCH_SIZE * MAX_CACHED_BATCHES
    /\ Cardinality(ChunkFilesWritten) < CeilDiv(Len(added))
    /\ \E i, j \in 1..Len(added) : added[i].chunk.id = 1 /\ added[j].chunk.id = 2

\* The (chunk, embedding) pairs of two parallel lists, as one list.
Zip(chunks, embeddings) ==
    [i \in 1..Len(chunks) |-> [chunk |-> chunks[i], embedding |-> embeddings[i]]]

Pairs(s) == Zip(getChunks(s), getEmbeddings(s))

KeptPairs(s, source) == SelectSeq(Pairs(s), LAMBDA in : NotFromSource(in, source))

FromSource(in, source) == in.chunk.source = source

RemovedPairs(s, source) == SelectSeq(Pairs(s), LAMBDA in : FromSource(in, source))

(***************************************************************************)
(* C2: removeChunksBySource(s) leaves getChunks() equal to the previous   *)
(* sequence without the records of source s, every survivor in its        *)
(* original relative order and still paired with its own vector, and      *)
(* chunkCount decreases by exactly the number of records of source s.     *)
(***************************************************************************)
C2_RemoveKeepsOthers ==
    [][call'.op = "removeChunksBySource" =>
          /\ Pairs(Cur') = KeptPairs(Cur, call'.source)
          /\ Len(getEmbeddings(Cur')) = Len(getChunks(Cur'))
          /\ index'.chunkCount =
                 index.chunkCount - Len(RemovedPairs(Cur, call'.source))]_vars

\* A removal that dropped and kept records, from a store whose batches were
\* partly cached and partly on disk only.
C2_Witness ==
    /\ call.op = "removeChunksBySource"
    /\ 0 < index.chunkCount
    /\ index.chunkCount < call.count
    /\ call.cached # {}
    /\ \E b \in 0..(CeilDiv(call.count) - 1) : b \notin call.cached
    /\ deleted # {}

(***************************************************************************)
(* C3: when no stored record has source s, removeChunksBySource(s) writes *)
(* and deletes no file, does not rewrite index.json and leaves chunkCount *)
(* and the cache unchanged.                                                *)
(***************************************************************************)
C3_RemoveNoop ==
    [][(call'.op = "removeChunksBySource"
           /\ RemovedPairs(Cur, call'.source) = << >>) =>
          /\ written' = {}
          /\ deleted' = {}
          /\ UNCHANGED <<chunkFiles, embFiles, indexFile, configFile,
                         chunksCache, embeddingsCache, index>>]_vars

\* A removal that matched nothing in a store with cached and saved batches.
C3_Witness ==
    /\ call.op = "removeChunksBySource"
    /\ call.count = index.chunkCount
    /\ index.chunkCount > BATCH_SIZE
    /\ chunksCache # << >>
    /\ OnDisk # {}
    /\ \A i \in 1..Len(added) : added[i].chunk.source # call.source

\* Number of records a chunk file holds (0 when it does not exist).
ChunkFileCount(b) == IF chunkFiles[b] = << >> THEN 0 ELSE Len(chunkFiles[b][1].chunks)

RECURSIVE SumChunkFiles(_)
SumChunkFiles(b) == IF b < 0 THEN 0 ELSE ChunkFileCount(b) + SumChunkFiles(b - 1)

\* The two files of batch b exist and describe the same records in the same
\* order: same count, and vector i is the stored form of record i's vector.
PairOnDisk(b) ==
    /\ chunkFiles[b] # << >>
    /\ embFiles[b] # << >>
    /\ LET chunks == chunkFiles[b][1].chunks
           buffer == embFiles[b][1]
       IN  /\ buffer[1] = Len(chunks)
           /\ ByteLength(buffer) = 4 + Len(chunks) * config.dimension * 4
           /\ decodeEmbeddings(buffer, config.dimension) =
                  [i \in 1..Len(chunks) |-> RoundVector(EmbeddingOf(chunks[i].id))]

(***************************************************************************)
(* C4: after any save(), index.json holds chunkCount = n, exactly         *)
(* ceil(n / batchSize) chunk-file/embedding-file pairs exist, numbered    *)
(* contiguously from 0, the two files of each pair hold the same number   *)
(* of entries in the same order, and the entries sum to n.                *)
(***************************************************************************)
C4_SaveSelfDescribing ==
    call.op = "save" =>
        /\ indexFile = <<[chunkCount |-> index.chunkCount, batchSize |-> BATCH_SIZE]>>
        /\ index.chunkCount = Len(added)
        /\ \A b \in BatchNums :
              IF b < CeilDiv(index.chunkCount)
              THEN PairOnDisk(b)
              ELSE chunkFiles[b] = << >> /\ embFiles[b] = << >>
        /\ SumChunkFiles(MaxBatch) = index.chunkCount

\* A save after the store shrank, leaving a partial last batch.
C4_Witness ==
    /\ call.op = "save"
    /\ index.chunkCount > BATCH_SIZE
    /\ index.chunkCount % BATCH_SIZE # 0
    /\ \E b \in BatchNums : b >= CeilDiv(index.chunkCount)
    /\ \E i, j \in 1..Len(added) : added[i].chunk.id # added[j].chunk.id

(***************************************************************************)
(* C5: after every addChunk returns, the number of batches held in the    *)
(* cache is at most maxCachedBatches.                                      *)
(***************************************************************************)
C5_CacheBoundAfterAdd ==
    call.op = "addChunk" =>
        /\ Len(chunksCache) <= MAX_CACHED_BATCHES
        /\ Len(embeddingsCache) <= MAX_CACHED_BATCHES

\* An append into a batch beyond the cache capacity, with the cache full.
C5_Witness ==
    /\ call.op = "addChunk"
    /\ index.chunkCount > BATCH_SIZE * MAX_CACHED_BATCHES
    /\ Len(chunksCache) = MAX_CACHED_BATCHES
    /\ written # {}

(***************************************************************************)
(* C6 (as stated): whenever eviction removes a batch from the cache, its  *)
(* two files hold the content the cache entry had, and a later load of    *)
(* the batch in the same instance returns the same records and vectors.   *)
(***************************************************************************)
C6_AsStated ==
    [][call'.op = "addChunk" =>
          \A b \in Evicted :
              /\ chunkFiles'[b] = <<[chunks |-> MapGet(chunksCache, b)]>>
              /\ embFiles'[b] # << >>
              /\ loadChunkBatch(Cur', b) = MapGet(chunksCache, b)
              /\ loadEmbeddingBatch(Cur', b) = MapGet(embeddingsCache, b)]_vars

(***************************************************************************)
(* C6 (amended): whenever eviction removes a batch from the cache, its    *)
(* chunk file holds the records the cache entry had and its embedding     *)
(* file holds the encoding of the vectors the cache entry had, so a later *)
(* load of the batch in the same instance returns the same records, and   *)
(* the same vectors with every component rounded to single precision.     *)
(***************************************************************************)
C6_EvictionPersists ==
    [][call'.op = "addChunk" =>
          \A b \in Evicted :
              /\ chunkFiles'[b] = <<[chunks |-> MapGet(chunksCache, b)]>>
              /\ embFiles'[b] =
                     <<encodeEmbeddings(MapGet(embeddingsCache, b), config.dimension)>>
              /\ loadChunkBatch(Cur', b) = MapGet(chunksCache, b)
              /\ loadEmbeddingBatch(Cur', b) =
                     RoundVectors(MapGet(embeddingsCache, b))]_vars

\* An append that evicted a full batch holding records that had never been
\* saved, one of them with a vector that is not single-precision.
C6_Witness ==
    /\ call.op = "addChunk"
    /\ indexFile = << >>
    /\ \E b \in call.cached :
          /\ ~MapHas(chunksCache, b)
          /\ ChunkFileId(b) \in written
          /\ EmbFileId(b) \in written
          /\ ChunkFileCount(b) = BATCH_SIZE
          /\ \E i \in 1..BATCH_SIZE : chunkFiles[b][1].chunks[i].id = 2

\* Number of records batch b must hold when the store holds n records.
Expected(b, n) == Max(0, Min(BATCH_SIZE, n - b * BATCH_SIZE))

(***************************************************************************)
(* C7: in every reachable state, taking the cache entry when present and  *)
(* the file otherwise, every batch except the highest-numbered one holds  *)
(* exactly batchSize records and the highest-numbered one the remainder.  *)
(***************************************************************************)
C7_BatchFullness ==
    \A b \in 0..(CeilDiv(index.chunkCount) - 1) :
        /\ Len(loadChunkBatch(Cur, b)) = Expected(b, index.chunkCount)
        /\ Len(loadEmbeddingBatch(Cur, b)) = Expected(b, index.chunkCount)

\* Three batches, the last one partial, one of them on disk only and one
\* cached with more records than its file.
C7_Witness ==
    /\ index.chunkCount = 2 * BATCH_SIZE + 1
    /\ \E b \in OnDisk : ~MapHas(chunksCache, b)
    /\ \E b \in OnDisk : MapHas(chunksCache, b)
                            /\ ChunkFileCount(b) < Len(MapGet(chunksCache, b))

\* Vector v is the vector of record c, as added or as read back from a file.
Belongs(c, v) == v = EmbeddingOf(c.id) \/ v = RoundVector(EmbeddingOf(c.id))

(***************************************************************************)
(* C8: in every reachable state the cache holds a chunk entry for a batch *)
(* exactly when it holds an embedding entry for it, the two lists of a    *)
(* batch have the same length in the cache and on disk, and entry i of    *)
(* one belongs to the same record as entry i of the other.                *)
(***************************************************************************)
C8_Pairing ==
    /\ MapKeySet(chunksCache) = MapKeySet(embeddingsCache)
    /\ \A b \in MapKeySet(chunksCache) :
          LET chunks == MapGet(chunksCache, b)
              embeddings == MapGet(embeddingsCache, b)
          IN  /\ Len(chunks) = Len(embeddings)
              /\ \A i \in 1..Len(chunks) : Belongs(chunks[i], embeddings[i])
    /\ \A b \in BatchNums :
          /\ (chunkFiles[b] = << >>) <=> (embFiles[b] = << >>)
          /\ chunkFiles[b] # << >> => PairOnDisk(b)

\* A batch with two different records, cached and on disk with different
\* contents, after a removal re-partitioned the store.
C8_Witness ==
    /\ call.op = "addChunk"
    /\ \E b \in OnDisk :
          /\ MapHas(chunksCache, b)
          /\ Len(MapGet(chunksCache, b)) = BATCH_SIZE
          /\ ChunkFileCount(b) < BATCH_SIZE
          /\ MapGet(chunksCache, b)[1].id # MapGet(chunksCache, b)[2].id
    /\ \E b \in OnDisk : ~MapHas(chunksCache, b) /\ ChunkFileCount(b) = BATCH_SIZE

(***************************************************************************)
(* C9 (as stated): addChunk makes chunkCount one larger and leaves        *)
(* getChunks()/getEmbeddings() equal to the previous sequences with the   *)
(* new record/vector as last element.                                      *)
(***************************************************************************)
C9_AsStated ==
    [][call'.op = "addChunk" =>
          /\ index'.chunkCount = index.chunkCount + 1
          /\ getChunks(Cur') = Append(getChunks(Cur), call'.chunk)
          /\ getEmbeddings(Cur') = Append(getEmbeddings(Cur), call'.embedding)]_vars

\* getEmbeddings() before the step, with the vectors of the batches the step
\* evicted as they read back from their files.
AfterEviction ==
    LET before == getEmbeddings(Cur)
    IN  [i \in 1..Len(before) |->
            IF getBatchNumber(i - 1) \in Evicted
            THEN RoundVector(before[i]) ELSE before[i]]

(***************************************************************************)
(* C9 (amended): addChunk makes chunkCount one larger, leaves getChunks() *)
(* equal to the previous sequence with the new record as last element,    *)
(* whatever records are already stored, and leaves getEmbeddings() equal  *)
(* to the previous sequence with the new vector as last element, except   *)
(* that the vectors of the batches it evicts now have every component     *)
(* rounded to single precision.                                            *)
(***************************************************************************)
C9_AppendsAtTail ==
    [][call'.op = "addChunk" =>
          /\ index'.chunkCount = index.chunkCount + 1
          /\ getChunks(Cur') = Append(getChunks(Cur), call'.chunk)
          /\ getEmbeddings(Cur') = Append(AfterEviction, call'.embedding)]_vars

\* An append of a record equal to one already stored, which evicted a batch.
C9_Witness ==
    /\ call.op = "addChunk"
    /\ written # {}
    /\ index.chunkCount = call.count + 1
    /\ \E i \in 1..call.count : getChunks(Cur)[i] = call.chunk
    /\ getChunks(Cur)[index.chunkCount] = call.chunk

\* The files addChunk may write: those of cached batches other than the
\* batch it appends to.
EvictableFiles ==
    LET others == MapKeySet(chunksCache) \ {getBatchNumber(index.chunkCount)}
    IN  {ChunkFileId(b) : b \in others} \cup {EmbFileId(b) : b \in others}

\* addChunk writes neither index.json, nor config.json, nor a file of the
\* batch it appends to, and deletes nothing.
AddWritesOnlyEvicted ==
    /\ written' \subseteq EvictableFiles
    /\ deleted' = {}
    /\ UNCHANGED <<indexFile, configFile>>
    /\ chunkFiles'[getBatchNumber(index.chunkCount)] =
           chunkFiles[getBatchNumber(index.chunkCount)]
    /\ embFiles'[getBatchNumber(index.chunkCount)] =
           embFiles[getBatchNumber(index.chunkCount)]

\* A fresh instance returns more records than index.json counts: records
\* added after the last write of index.json.
UnsavedVisible == Len(getChunks(Fresh)) > Fresh.index.chunkCount

(***************************************************************************)
(* C10: addChunk writes no file but those of other batches it evicts, and *)
(* a record added and not followed by save() or a rewriting compaction is *)
(* not visible to a fresh store instance.  The first conjunct holds; the  *)
(* second fails once an eviction writes a batch that index.json covers.   *)
(***************************************************************************)
C10_AsStated ==
    /\ [][call'.op = "addChunk" => AddWritesOnlyEvicted]_vars
    /\ []~UnsavedVisible

\* The records of a list of pairs, and their vectors.
ChunksOf(pairs) == [i \in 1..Len(pairs) |-> pairs[i].chunk]

EmbeddingsOf(pairs) == [i \in 1..Len(pairs) |-> pairs[i].embedding]

\* Positions of the writes of index.json in a log.
IndexWrites(l) == {i \in 1..Len(l) : l[i] = WriteOf(IndexFileId)}

\* Positions of the writes of batch files in a log.
BatchWrites(l) ==
    {i \in 1..Len(l) : l[i].act = "write" /\ l[i].file.kind \in {"chunks", "embeddings"}}

(***************************************************************************)
(* C11: a removeChunksBySource call that removes at least one record      *)
(* deletes every old batch file, writes the kept records as batches       *)
(* 0..ceil(kept/batchSize)-1 of batchSize records each (the last one the  *)
(* remainder), persists index.json with chunkCount = kept only after all  *)
(* batch files are written, and a fresh instance opened right after it    *)
(* returns exactly the kept records, without a save().                     *)
(***************************************************************************)
C11_RemoveIsDurable ==
    [][(call'.op = "removeChunksBySource"
           /\ RemovedPairs(Cur, call'.source) # << >>) =>
          LET kept == KeptPairs(Cur, call'.source)
              n == Len(kept)
          IN  /\ \A b \in BatchNums :
                    /\ chunkFiles[b] # << >> => ChunkFileId(b) \in deleted'
                    /\ embFiles[b] # << >> => EmbFileId(b) \in deleted'
              /\ \A b \in BatchNums :
                    IF b < CeilDiv(n)
                    THEN /\ chunkFiles'[b] =
                                <<[chunks |-> SubSeq(ChunksOf(kept), b * BATCH_SIZE + 1,
                                                     Min((b + 1) * BATCH_SIZE, n))]>>
                         /\ embFiles'[b] =
                                <<encodeEmbeddings(
                                      SubSeq(EmbeddingsOf(kept), b * BATCH_SIZE + 1,
                                             Min((b + 1) * BATCH_SIZE, n)),
                                      config.dimension)>>
                         /\ Len(chunkFiles'[b][1].chunks) = Expected(b, n)
                    ELSE chunkFiles'[b] = << >> /\ embFiles'[b] = << >>
              /\ indexFile' = <<[chunkCount |-> n, batchSize |-> BATCH_SIZE]>>
              /\ IndexWrites(log') = {Len(log')}
              /\ \A i \in BatchWrites(log') : i < Len(log')
              /\ Cardinality(BatchWrites(log')) = 2 * CeilDiv(n)
              /\ Fresh'.index.chunkCount = n
              /\ getChunks(Fresh') = ChunksOf(kept)
              /\ getEmbeddings(Fresh') = RoundVectors(EmbeddingsOf(kept))]_vars

\* A removal that kept records of a batch that had never been written, next
\* to batches it had to delete, and rewrote more than one batch.
C11_Witness ==
    /\ call.op = "removeChunksBySource"
    /\ index.chunkCount < call.count
    /\ index.chunkCount > BATCH_SIZE
    /\ deleted # {}
    /\ \E b \in call.cached : ChunkFileId(b) \notin deleted
    /\ getChunks(Fresh) = AddedChunks

(***************************************************************************)
(* C12: after clear() returns, from any reachable state, chunkCount is 0  *)
(* and hasData() is false, no chunk or embedding batch file exists, the   *)
(* cache is empty, index.json already records chunkCount 0 without a      *)
(* save(), and the stored configuration is unchanged.                      *)
(***************************************************************************)
C12_ClearResets ==
    [][call'.op = "clear" =>
          /\ index'.chunkCount = 0
          /\ ~hasData(Cur')
          /\ \A b \in BatchNums : chunkFiles'[b] = << >> /\ embFiles'[b] = << >>
          /\ chunksCache' = << >> /\ embeddingsCache' = << >>
          /\ indexFile' # << >> /\ indexFile'[1].chunkCount = 0
          /\ Fresh'.index.chunkCount = 0 /\ ~hasData(Fresh')
          /\ getChunks(Fresh') = << >>
          /\ config' = config
          /\ configFile' = configFile
          /\ Fresh'.config.dimension = config.dimension
          /\ Fresh'.config.threshold = config.threshold]_vars

\* A clear() of a store that had records, cached batches and batch files.
C12_Witness ==
    /\ call.op = "clear"
    /\ call.count > 0
    /\ call.cached # {}
    /\ \E b \in BatchNums : ChunkFileId(b) \in deleted /\ EmbFileId(b) \in deleted
    /\ index.chunkCount = 0
    /\ indexFile = <<createEmptyIndex>>

(***************************************************************************)
(* C13: save() writes the chunk file and the embedding file of every      *)
(* cached batch before it writes config.json and index.json, and the      *)
(* cache is empty when it returns; a save() right after a save() writes   *)
(* no batch file and leaves chunkCount and all batch files unchanged.     *)
(***************************************************************************)
C13_SaveOrder ==
    [][call'.op = "save" =>
          /\ \A b \in MapKeySet(chunksCache) :
                /\ \E i \in BatchWrites(log') : log'[i] = WriteOf(ChunkFileId(b))
                /\ \E i \in BatchWrites(log') : log'[i] = WriteOf(EmbFileId(b))
                /\ chunkFiles'[b] = <<[chunks |-> MapGet(chunksCache, b)]>>
                /\ embFiles'[b] = <<encodeEmbeddings(MapGet(embeddingsCache, b),
                                                     config.dimension)>>
          /\ Len(log') >= 2
          /\ log'[Len(log') - 1] = WriteOf(ConfigFileId)
          /\ log'[Len(log')] = WriteOf(IndexFileId)
          /\ BatchWrites(log') = 1..(Len(log') - 2)
          /\ chunksCache' = << >> /\ embeddingsCache' = << >>
          /\ (call.op = "save" =>
                /\ BatchWrites(log') = {}
                /\ index'.chunkCount = index.chunkCount
                /\ chunkFiles' = chunkFiles
                /\ embFiles' = embFiles)]_vars

\* A save() that flushed at least two cached batches, then the two metadata
\* files, and emptied the cache.
C13_Witness ==
    /\ call.op = "save"
    /\ Cardinality(call.cached) >= 2
    /\ \A b \in call.cached : {ChunkFileId(b), EmbFileId(b)} \subseteq written
    /\ Len(log) = 2 * Cardinality(call.cached) + 2
    /\ chunksCache = << >>

(***************************************************************************)
(* C14: evictOldCaches(keep), called in any reachable state with any      *)
(* batch number: if the cache holds MAX_CACHED_BATCHES or more entries on *)
(* entry, it holds at most MAX_CACHED_BATCHES - 1 on exit and the entry   *)
(* of keep is still cached if it was; if it holds fewer, the cache is     *)
(* unchanged and no file is written.                                       *)
(***************************************************************************)
C14_EvictContract ==
    \A keep \in BatchNums :
        LET s == evictOldCaches(Cur, keep)
        IN  IF Len(chunksCache) >= MAX_CACHED_BATCHES
            THEN /\ Len(s.chunksCache) <= MAX_CACHED_BATCHES - 1
                 /\ Len(s.embeddingsCache) <= MAX_CACHED_BATCHES - 1
                 /\ MapHas(chunksCache, keep) =>
                       /\ MapHas(s.chunksCache, keep)
                       /\ MapGet(s.chunksCache, keep) = MapGet(chunksCache, keep)
                 /\ MapHas(embeddingsCache, keep) =>
                       /\ MapHas(s.embeddingsCache, keep)
                       /\ MapGet(s.embeddingsCache, keep) = MapGet(embeddingsCache, keep)
            ELSE /\ s.chunksCache = chunksCache
                 /\ s.embeddingsCache = embeddingsCache
                 /\ s.written = {} /\ s.log = << >>
                 /\ s.chunkFiles = chunkFiles /\ s.embFiles = embFiles
                 /\ s.indexFile = indexFile /\ s.configFile = configFile

\* An addChunk whose eviction found a full cache that held the target batch:
\* the other batch was written and only the target stayed cached.
C14_Witness ==
    /\ call.op = "addChunk"
    /\ Cardinality(call.cached) >= MAX_CACHED_BATCHES
    /\ getBatchNumber(call.count) \in call.cached
    /\ MapKeySet(chunksCache) = {getBatchNumber(call.count)}
    /\ \E b \in call.cached : ChunkFileId(b) \in written

\* The position of a batch in the touch order (0 when it is not in it).
TouchedAt(b) ==
    IF \E i \in 1..Len(touched) : touched[i] = b
    THEN CHOOSE i \in 1..Len(touched) : touched[i] = b
    ELSE 0

(***************************************************************************)
(* C15: eviction is least-recently-used: whenever addChunk's eviction     *)
(* removes a batch from the cache, every batch that stays cached, other   *)
(* than the kept target batch, was touched (inserted into the cache or    *)
(* appended to) at least as recently as the removed batch.                 *)
(***************************************************************************)
C15_EvictsLeastRecentlyTouched ==
    [][call'.op = "addChunk" =>
          /\ \A b \in MapKeySet(chunksCache) : TouchedAt(b) > 0
          /\ \A b \in Evicted :
                \A c \in MapKeySet(chunksCache) \cap MapKeySet(chunksCache') :
                    c # getBatchNumber(index.chunkCount) =>
                        TouchedAt(c) >= TouchedAt(b)]_vars

\* An addChunk that opened a new batch with a full cache: one batch was
\* evicted and another one, which is not the target, stayed cached.
C15_Witness ==
    /\ call.op = "addChunk"
    /\ getBatchNumber(call.count) \notin call.cached
    /\ \E b \in call.cached : ~MapHas(chunksCache, b) /\ ChunkFileId(b) \in written
    /\ \E c \in call.cached : MapHas(chunksCache, c)
    /\ touched = MapKeys(chunksCache)

(***************************************************************************)
(* C16 (as stated): in every state between operations reachable by        *)
(* addChunk, removeChunksBySource, save and clear, the cache holds at     *)
(* most MAX_CACHED_BATCHES batches, also right after a                    *)
(* removeChunksBySource that rewrites more batches than that.             *)
(***************************************************************************)
C16_AsStated ==
    /\ Len(chunksCache) <= MAX_CACHED_BATCHES
    /\ Len(embeddingsCache) <= MAX_CACHED_BATCHES

\* Batch numbers that have an entry in either cache.
InCache == MapKeySet(chunksCache) \cup MapKeySet(embeddingsCache)

\* A batch holds data when its records are in the cache or in its chunk file.
HoldsData(b) ==
    \/ MapHas(chunksCache, b) /\ MapGet(chunksCache, b) # << >>
    \/ ~MapHas(chunksCache, b) /\ chunkFiles[b] # << >>
          /\ chunkFiles[b][1].chunks # << >>

(***************************************************************************)
(* C17: batch topology: in every state reachable by addChunk,             *)
(* removeChunksBySource, save and clear, the batch numbers that have a    *)
(* cache entry or a file on disk are exactly 0..ceil(chunkCount /         *)
(* BATCH_SIZE) - 1, and every batch of that range holds data.             *)
(***************************************************************************)
C17_BatchTopology ==
    /\ InCache \cup OnDisk = 0..(CeilDiv(index.chunkCount) - 1)
    /\ \A b \in 0..(CeilDiv(index.chunkCount) - 1) : HoldsData(b)

\* After a removal that left fewer batches than before: the files of the old
\* last batch are gone and the kept batches are in the cache and on disk.
C17_Witness ==
    /\ call.op = "removeChunksBySource"
    /\ index.chunkCount > 0
    /\ CeilDiv(index.chunkCount) < CeilDiv(call.count)
    /\ \E b \in BatchNums :
          /\ b >= CeilDiv(index.chunkCount)
          /\ {ChunkFileId(b), EmbFileId(b)} \subseteq deleted
    /\ InCache = OnDisk

(***************************************************************************)
(* C20: for a list of count vectors, each of length dimension,            *)
(* encodeEmbeddings returns a buffer of exactly 4 + count*dimension*4     *)
(* bytes whose first word is count, and decodeEmbeddings of that buffer   *)
(* with the same dimension returns the list back: same count, same order, *)
(* each vector of length dimension with the same 32-bit values (hence the *)
(* same numbers when the components are single-precision values).         *)
(***************************************************************************)
C20_CodecRoundTrip ==
    LET count == Len(codec.vectors)
        dimension == config.dimension
    IN  /\ codec.stage \in {"encoded", "decoded"} =>
              /\ ByteLength(codec.buffer) = 4 + count * dimension * 4
              /\ codec.buffer[1] = count
        /\ codec.stage = "decoded" =>
              /\ Len(codec.decoded) = count
              /\ \A i \in 1..count :
                    /\ Len(codec.decoded[i]) = dimension
                    /\ \A j \in 1..dimension :
                          writeFloatLE(codec.decoded[i][j]) =
                              writeFloatLE(codec.vectors[i][j])
              /\ codec.decoded = RoundVectors(codec.vectors)
              /\ (\A i \in 1..count : codec.vectors[i] = EmbeddingOf(1)) =>
                    codec.decoded = codec.vectors

\* A decoded list of MaxVectors vectors, not all equal, whose first vector
\* came back as it was given.
C20_Witness ==
    /\ codec.stage = "decoded"
    /\ Len(codec.vectors) = MaxVectors
    /\ codec.vectors[1] # codec.vectors[2]
    /\ codec.decoded[1] = codec.vectors[1]
    /\ codec.decoded[2] # codec.decoded[1]

(***************************************************************************)
(* C18: if the write of a batch file fails while addChunk is evicting,    *)
(* addChunk raises to the caller, the new record is not appended,         *)
(* chunkCount is unchanged, and the batch whose write failed is still in  *)
(* the cache with all its records; nothing buffered is dropped.           *)
(***************************************************************************)
C18_AddChunkFailure ==
    [][(call'.op = "addChunk" /\ call'.failed # NoFile) =>
          LET b == call'.failed.num
          IN  /\ call'.raised
              /\ index'.chunkCount = index.chunkCount
              /\ indexFile' = indexFile
              /\ getChunks(Cur') = getChunks(Cur)
              /\ MapHas(chunksCache, b) /\ MapHas(chunksCache', b)
              /\ MapGet(chunksCache', b) = MapGet(chunksCache, b)
              /\ MapHas(embeddingsCache, b) /\ MapHas(embeddingsCache', b)
              /\ MapGet(embeddingsCache', b) = MapGet(embeddingsCache, b)
              /\ \A c \in MapKeySet(chunksCache) :
                    \/ /\ MapHas(chunksCache', c)
                       /\ MapGet(chunksCache', c) = MapGet(chunksCache, c)
                       /\ MapGet(embeddingsCache', c) = MapGet(embeddingsCache, c)
                    \/ /\ chunkFiles'[c] = <<[chunks |-> MapGet(chunksCache, c)]>>
                       /\ embFiles'[c] = <<encodeEmbeddings(MapGet(embeddingsCache, c),
                                                            config.dimension)>>]_vars

\* An addChunk that threw on the embedding file of the batch it was evicting
\* from a full cache, after the chunk file of that batch was written.
C18_Witness ==
    /\ call.op = "addChunk"
    /\ call.raised
    /\ call.failed.kind = "embeddings"
    /\ Cardinality(call.cached) >= MAX_CACHED_BATCHES
    /\ MapHas(chunksCache, call.failed.num)
    /\ ChunkFileId(call.failed.num) \in written
    /\ index.chunkCount = call.count

(***************************************************************************)
(* C19: if the write of a batch file fails during save(), save() raises   *)
(* to the caller, index.json and config.json are not rewritten by that    *)
(* call, and the cache is not cleared: every batch that was cached before *)
(* the call is still cached with the same records.                        *)
(***************************************************************************)
C19_SaveFailure ==
    [][(call'.op = "save" /\ call'.failed # NoFile) =>
          /\ call'.raised
          /\ indexFile' = indexFile
          /\ configFile' = configFile
          /\ IndexFileId \notin written' /\ ConfigFileId \notin written'
          /\ \A i \in 1..Len(log') : log'[i].file \notin {IndexFileId, ConfigFileId}
          /\ MapKeySet(chunksCache') = MapKeySet(chunksCache)
          /\ MapKeySet(embeddingsCache') = MapKeySet(embeddingsCache)
          /\ \A b \in MapKeySet(chunksCache) :
                /\ MapGet(chunksCache', b) = MapGet(chunksCache, b)
                /\ MapGet(embeddingsCache', b) = MapGet(embeddingsCache, b)
          /\ index'.chunkCount = index.chunkCount]_vars

\* A save() that threw on its second cached batch after it had written the
\* first one, leaving both in the cache.
C19_Witness ==
    /\ call.op = "save"
    /\ call.raised
    /\ Cardinality(call.cached) >= 2
    /\ \E b \in call.cached : b # call.failed.num /\ ChunkFileId(b) \in written
    /\ MapKeySet(chunksCache) = call.cached
    /\ IndexFileId \notin written

\* The records the batches other than b hold for an instance s.
RECURSIVE ConcatChunksBut(_, _, _, _)
ConcatChunksBut(s, b, batchNum, totalBatches) ==
    IF batchNum >= totalBatches THEN << >>
    ELSE (IF batchNum = b THEN << >> ELSE loadChunkBatch(s, batchNum))
         \o ConcatChunksBut(s, b, batchNum + 1, totalBatches)

\* The vectors the batches other than b hold for an instance s.
RECURSIVE ConcatEmbeddingsBut(_, _, _, _)
ConcatEmbeddingsBut(s, b, batchNum, totalBatches) ==
    IF batchNum >= totalBatches THEN << >>
    ELSE (IF batchNum = b THEN << >> ELSE loadEmbeddingBatch(s, batchNum))
         \o ConcatEmbeddingsBut(s, b, batchNum + 1, totalBatches)

\* Damaging the chunk file of batch b changes what a new instance loads for
\* the records of b only, to the empty list.
ChunkDamageIsLocal(b) ==
    /\ loadChunkBatch(Fresh', b) = << >>
    /\ \A c \in BatchNums \ {b} : loadChunkBatch(Fresh', c) = loadChunkBatch(Fresh, c)
    /\ \A c \in BatchNums : loadEmbeddingBatch(Fresh', c) = loadEmbeddingBatch(Fresh, c)
    /\ getChunks(Fresh') =
           ConcatChunksBut(Fresh, b, 0, CeilDiv(Fresh.index.chunkCount))
    /\ getEmbeddings(Fresh') = getEmbeddings(Fresh)
    /\ Fresh'.index.chunkCount = Fresh.index.chunkCount

\* Damaging the embedding file of batch b changes what a new instance loads
\* for the vectors of b only, to the empty list.
EmbeddingDamageIsLocal(b) ==
    /\ loadEmbeddingBatch(Fresh', b) = << >>
    /\ \A c \in BatchNums \ {b} :
          loadEmbeddingBatch(Fresh', c) = loadEmbeddingBatch(Fresh, c)
    /\ \A c \in BatchNums : loadChunkBatch(Fresh', c) = loadChunkBatch(Fresh, c)
    /\ getEmbeddings(Fresh') =
           ConcatEmbeddingsBut(Fresh, b, 0, CeilDiv(Fresh.index.chunkCount))
    /\ getChunks(Fresh') = getChunks(Fresh)
    /\ Fresh'.index.chunkCount = Fresh.index.chunkCount

(***************************************************************************)
(* C21: a corrupt batch file is treated as an empty batch: a chunk file   *)
(* that is not parsable, or an embedding file shorter than its count      *)
(* declares, loads as the empty list for that half of that batch only;    *)
(* the other half and the other batches load unchanged, chunkCount is not *)
(* changed by the load, and getChunks, getEmbeddings and addChunk do not  *)
(* raise: addChunk appends the record to what was loaded.                 *)
(***************************************************************************)
C21_CorruptBatchIsEmpty ==
    [][/\ \A b \in BatchNums :
             /\ (chunkFiles'[b] # chunkFiles[b] /\ chunkFiles'[b] = <<Unparsable>>)
                   => ChunkDamageIsLocal(b)
             /\ (embFiles'[b] # embFiles[b] /\ embFiles[b] # << >>
                    /\ embFiles'[b] \in
                           {<<buffer>> : buffer \in Truncations(embFiles[b][1])})
                   => EmbeddingDamageIsLocal(b)
       /\ call'.op \in {"getChunks", "getEmbeddings"} =>
             /\ ~call'.raised
             /\ index' = index
             /\ indexFile' = indexFile
       /\ call'.op = "addChunk" =>
             LET b == getBatchNumber(index.chunkCount)
                 s == evictOldCaches(Cur, b)
             IN  /\ ~call'.raised
                 /\ index'.chunkCount = index.chunkCount + 1
                 /\ (~MapHas(s.chunksCache, b) /\ ChunkFileDamaged(b)) =>
                       /\ MapGet(chunksCache', b) = <<call'.chunk>>
                       /\ MapGet(embeddingsCache', b) =
                              Append(loadEmbeddingBatch(s, b), call'.embedding)
                 /\ (~MapHas(s.embeddingsCache, b) /\ EmbFileDamaged(b)) =>
                       /\ MapGet(embeddingsCache', b) = <<call'.embedding>>
                       /\ MapGet(chunksCache', b) =
                              Append(loadChunkBatch(s, b), call'.chunk)]_vars

\* An addChunk of the second run into a batch whose chunk file is damaged
\* and whose embedding file is not: the batch starts again with the new
\* record next to the vector that was stored and the new one.
C21_Witness ==
    /\ call.op = "addChunk"
    /\ pc = "reopened"
    /\ ChunkFileDamaged(getBatchNumber(call.count))
    /\ MapGet(chunksCache, getBatchNumber(call.count)) = <<call.chunk>>
    /\ Len(MapGet(embeddingsCache, getBatchNumber(call.count))) = 2

(***************************************************************************)
(* C22: opening a store whose index.json exists but cannot be parsed does *)
(* not raise; the new instance has chunkCount 0, hasData() false, and     *)
(* getChunks() and getEmbeddings() return empty lists, whatever batch     *)
(* files the directory holds; the constructor writes and deletes nothing. *)
(***************************************************************************)
C22_CorruptIndexOpensEmpty ==
    [][(call'.op = "constructor" /\ IndexDamaged) =>
           /\ ~call'.raised
           /\ index'.chunkCount = 0
           /\ ~hasData(Cur')
           /\ getChunks(Cur') = << >>
           /\ getEmbeddings(Cur') = << >>
           /\ ~getChunksRaises(Cur') /\ ~getEmbeddingsRaises(Cur')
           /\ UNCHANGED <<chunkFiles, embFiles, indexFile, configFile>>]_vars

\* The instance just opened on a directory with an unparsable index.json and
\* a full first batch on disk.
C22_Witness ==
    /\ call.op = "constructor"
    /\ IndexDamaged
    /\ index.chunkCount = 0
    /\ chunkFiles[0] # << >> /\ ~ChunkFileDamaged(0)
    /\ Len(chunkFiles[0][1].chunks) = BATCH_SIZE
    /\ embFiles[0] # << >>

(***************************************************************************)
(* C23: opening a store whose config.json is unparsable or carries a      *)
(* version other than "1.0" does not raise; the configuration of the new  *)
(* instance is the empty one (dimension 0, default threshold), nothing of *)
(* the file is migrated, the index is what index.json holds, and no file  *)
(* is written or deleted.                                                  *)
(***************************************************************************)
C23_BadConfigResets ==
    [][(call'.op = "constructor" /\ ConfigDamaged) =>
           /\ ~call'.raised
           /\ config' = createEmptyConfig
           /\ config'.dimension = 0 /\ config'.threshold = Threshold
           /\ index' = loadIndex(indexFile)
           /\ index'.chunkCount = call'.count
           /\ written' = {} /\ deleted' = {}
           /\ UNCHANGED <<chunkFiles, embFiles, indexFile, configFile>>]_vars

\* The instance just opened on a directory whose config.json another version
\* wrote with a non-zero dimension, next to a saved record.
C23_Witness ==
    /\ call.op = "constructor"
    /\ configFile # << >> /\ ~JsonParseThrows(configFile[1])
    /\ configFile[1].version # "1.0" /\ configFile[1].dimension = Dimension
    /\ config.dimension = 0
    /\ index.chunkCount > 0

\* The dimension a buildGraphRAG call works with: its argument when one was
\* given, else the stored one.
EffectiveDimension == IF call.dimension = << >> THEN config.dimension
                      ELSE call.dimension[1]

(***************************************************************************)
(* C24 as stated: every buildGraphRAG call whose effective dimension is 0 *)
(* raises, in every store state.  The code returns null for a store       *)
(* without records before it looks at the dimension.                      *)
(***************************************************************************)
C24_AsStated ==
    (call.op = "buildGraphRAG" /\ EffectiveDimension = 0) => call.raised

(***************************************************************************)
(* C24: buildGraphRAG raises exactly when the store holds records         *)
(* (chunkCount > 0) and the effective dimension is 0; on a store without  *)
(* records it returns null without raising, whatever the dimension; with  *)
(* records and a non-zero effective dimension it returns a graph of that  *)
(* dimension.                                                              *)
(***************************************************************************)
C24_ZeroDimensionIsFatal ==
    call.op = "buildGraphRAG" =>
        /\ call.raised <=> (call.count > 0 /\ EffectiveDimension = 0)
        /\ call.raised => call.result.kind = "throws"
        /\ call.count = 0 => call.result.kind = "null"
        /\ (call.count > 0 /\ EffectiveDimension # 0) =>
               /\ call.result.kind = "graph"
               /\ call.result.dimension = EffectiveDimension
        /\ index.chunkCount = call.count

\* buildGraphRAG() without an override on an instance that holds records and
\* whose config.json did not load: the stored dimension is 0 and the call
\* raises.
C24_Witness ==
    /\ call.op = "buildGraphRAG"
    /\ call.dimension = << >>
    /\ config.dimension = 0
    /\ call.count > 0
    /\ call.raised

\* What getConfig() returns.
getConfig(s) == [dimension |-> s.config.dimension, threshold |-> s.config.threshold]

(***************************************************************************)
(* C25: setConfig(d, t) persists immediately: when it returns, getConfig() *)
(* and config.json both report dimension d and threshold t (a new         *)
(* instance would load them), the only file written is config.json, and   *)
(* chunkCount, index.json, the batch files and both caches are unchanged. *)
(***************************************************************************)
C25_SetConfigPersists ==
    [][call'.op = "setConfig" =>
           /\ ~call'.raised
           /\ getConfig(Cur') = [dimension |-> call'.dimension[1],
                                 threshold |-> call'.threshold[1]]
           /\ configFile' # << >>
           /\ configFile'[1].dimension = call'.dimension[1]
           /\ configFile'[1].threshold = call'.threshold[1]
           /\ getConfig(Constructor(Cur')) = getConfig(Cur')
           /\ written' = {ConfigFileId} /\ deleted' = {}
           /\ UNCHANGED <<index, indexFile, chunkFiles, embFiles, chunksCache,
                          embeddingsCache>>]_vars

\* setConfig with a threshold other than the stored one on an instance opened
\* on saved records: config.json holds the new threshold although save() was
\* not called in this run.
C25_Witness ==
    /\ call.op = "setConfig"
    /\ call.threshold = <<Threshold + 1>>
    /\ configFile = <<config>>
    /\ config.threshold = Threshold + 1 /\ config.dimension = Dimension
    /\ index.chunkCount > 0

\* The operations that only read.
ReadOperations == {"getChunks", "getEmbeddings", "hasData", "getStats", "getConfig"}

(***************************************************************************)
(* C26: read operations do not promote or mutate: getChunks,              *)
(* getEmbeddings, hasData, getStats and getConfig leave both caches (keys, *)
(* order and contents), the index, the configuration and every file       *)
(* unchanged; a batch read from its file is not inserted into the cache.  *)
(***************************************************************************)
C26_ReadsDoNotMutate ==
    [][call'.op \in ReadOperations =>
           /\ UNCHANGED <<chunksCache, embeddingsCache, index, config,
                          chunkFiles, embFiles, indexFile, configFile>>
           /\ written' = {} /\ deleted' = {}]_vars

\* getChunks() just read a batch from its file that the cache does not hold,
\* next to a cached one.
C26_Witness ==
    /\ call.op = "getChunks"
    /\ chunksCache # << >>
    /\ \E b \in BatchNums :
           /\ b < CeilDiv(index.chunkCount)
           /\ chunkFiles[b] # << >>
           /\ ~MapHas(chunksCache, b)

\* The position of a file in the queue of the run, 0 when it is not in it.
QueueIndex(p) ==
    IF \E k \in 1..Len(run.queue) : run.queue[k] = p
    THEN CHOOSE k \in 1..Len(run.queue) : run.queue[k] = p
    ELSE 0

\* The files of the run that processBatch takes in a later batch than p.
LaterBatches(p) ==
    {q \in PathSet : /\ QueueIndex(p) > 0 /\ QueueIndex(q) > 0
                     /\ (QueueIndex(q) - 1) \div batchSize
                            > (QueueIndex(p) - 1) \div batchSize}

(***************************************************************************)
(* C27 as stated: once embedMany has failed for a file, no file of a      *)
(* later batch is handled, and the run ends by raising.  The code catches *)
(* the error in processFile, counts it, and goes on.                       *)
(***************************************************************************)
C27_AsStated ==
    \A p \in PathSet :
        run.outcome[p] = "embedFailed" =>
            /\ \A q \in LaterBatches(p) :
                   run.phase[q] = "idle" /\ run.outcome[q] = "none"
            /\ run.pc \in {"finish", "idle"} => run.raised

\* The warnings recorded about a file.
WarningsAbout(st, p) == SelectSeq(st.warnings, LAMBDA w : w.path = p)

\* The files of the run that ended in a given way.
Ended(r, outcome) == {p \in PathSet : r.outcome[p] = outcome}

(***************************************************************************)
(* C28: a file whose read fails gets exactly one warning ("Cannot read"), *)
(* its entry of the state and its vectors stay as they were, and it is    *)
(* counted neither as processed nor as skipped: filesProcessed and        *)
(* filesSkipped count exactly the files that were stored and the files    *)
(* that passed the resume check.  The failure does not end the run: no    *)
(* run raises after it has started on its files, and when processBatch    *)
(* has ended every file of the run was handled.                            *)
(***************************************************************************)
C28_ReadErrorsDoNotStop ==
    [][/\ \A p \in PathSet :
              run'.outcome[p] = "unreadable" =>
                  /\ WarningsAbout(stats', p) = <<[message |-> "Cannot read", path |-> p]>>
                  /\ run'.which = run.which =>
                         /\ stateManager'.files[p] = stateManager.files[p]
                         /\ vectors'[p] = vectors[p]
                  /\ stateFile' # << >> => stateFile'[1].files[p] = stateManager'.files[p]
       /\ stats'.filesProcessed = Cardinality(Ended(run', "processed"))
       /\ stats'.filesSkipped = Cardinality(Ended(run', "skipped"))
       /\ run'.raised => run'.queue = << >>
       /\ run'.pc = "finish" =>
              \A k \in 1..Len(run'.queue) : run'.outcome[run'.queue[k]] # "none"]_vars

\* A first run has ended in which the first file could not be read and the
\* two others, one of its batch and one of the next, were stored and marked.
C28_Witness ==
    /\ run.pc = "idle" /\ run.which = "first"
    /\ run.outcome = [p \in PathSet |-> IF p = Paths[1] THEN "unreadable"
                                        ELSE "processed"]
    /\ Len(stats.warnings) = 1
    /\ stateManager.files[Paths[1]] = << >>
    /\ \A k \in 2..Len(Paths) : stateManager.files[Paths[k]] # << >>

(***************************************************************************)
(* C29: intelligent mode takes the full path when the directory is not a  *)
(* git repository, when the state holds no last commit hash, or when the  *)
(* current commit cannot be determined; it does nothing at all (no file   *)
(* read, nothing stored, state file untouched) when the stored hash is    *)
(* the current commit; in every other case it indexes the diff between    *)
(* the stored commit and the current one.                                  *)
(***************************************************************************)
C29_IntelligentMode ==
    [][(run'.which # run.which /\ run'.mode = "intelligent") =>
           LET lastCommit == loadState(stateFile).lastCommitHash
               currentCommit == IF repo.git = "ok" THEN <<repo.head>> ELSE << >>
               full == repo.git = "none" \/ lastCommit = << >> \/ currentCommit = << >>
           IN  /\ full =>
                      /\ run'.selected = "full" /\ run'.path = "full"
                      /\ run'.queue = Paths /\ run'.pc = "batch"
               /\ (~full /\ lastCommit = currentCommit) =>
                      /\ run'.selected = "none" /\ run'.path = "none"
                      /\ run'.queue = << >> /\ run'.pc = "idle" /\ ~run'.raised
                      /\ stats' = NoStats
                      /\ UNCHANGED <<vectors, stateFile, repo>>
               /\ (~full /\ lastCommit # currentCommit) =>
                      /\ run'.selected = "diff" /\ run'.path = "diff"
                      /\ ~run'.raised
                      /\ run'.to = currentCommit
                      /\ \A p \in PathSet :
                             QueueIndex(p)' > 0 <=>
                                 repo.history[lastCommit[1]][p]
                                     # repo.history[currentCommit[1]][p]]_vars

\* The next run, in intelligent mode, after a commit that changed a file: it
\* indexes the diff, which is that file.
C29_Witness ==
    /\ run.which = "next" /\ run.mode = "intelligent"
    /\ run.selected = "diff"
    /\ Len(run.queue) = 1
    /\ stateManager.lastCommitHash = <<1>> /\ repo.head = 2

(***************************************************************************)
(* C30 as stated: of the files a batch starts on, one is skipped only     *)
(* when the state holds an entry with the hash of its content, and one    *)
(* goes on to chunking only when it does not; an entry is recorded only   *)
(* when the vectors of that content are stored; and a file whose          *)
(* chunking, embedding or storing failed in one run is processed again    *)
(* (its processFile call is made and does not skip it) in the next run,   *)
(* when that run ends normally.  After a run recorded the commit, the     *)
(* next run in diff or intelligent mode leaves out the files that failed. *)
(***************************************************************************)
C30_AsStated ==
    [][/\ \A p \in PathSet :
              (run.pc = "batch" /\ run'.pc = "await") =>
                  /\ (run'.outcome[p] = "skipped" /\ run.outcome[p] = "none") =>
                         ~needsProcessing(stateManager, p, repo.content[p])
                  /\ run'.phase[p] = "chunking" =>
                         needsProcessing(stateManager, p, repo.content[p])
       /\ \A p \in PathSet :
              (run'.which = run.which /\ stateManager'.files[p] # stateManager.files[p]) =>
                  /\ stateManager'.files[p] = <<computeHash(repo'.content[p])>>
                  /\ computeHash(repo'.content[p]) \in vectors'[p]
       /\ (run'.pc = "idle" /\ run'.which = "next" /\ ~run'.raised) =>
              \A p \in run'.failedBefore : run'.outcome[p] \notin {"none", "skipped"}]_vars

DiskConsistent == loadIndex(indexFile).chunkCount = SumChunkFiles(MaxBatch)

\* Every file operation of a log is an unlink.
OnlyUnlinks(l) == \A i \in 1..Len(l) : l[i].act = "unlink"

(***************************************************************************)
(* C32: compaction is not crash-atomic.  When a removeChunksBySource call *)
(* that removes at least one record, on a directory whose index.json      *)
(* agreed with its batch files, is interrupted after it started to delete *)
(* the old batch files and before it wrote any new one, the directory it  *)
(* leaves is inconsistent: index.json's chunkCount differs from the       *)
(* number of records held by the batch files.                              *)
(***************************************************************************)
C32_CompactionNotAtomic ==
    [][(call'.op = "interrupted" /\ DiskConsistent /\ OnlyUnlinks(log')) =>
          /\ indexFile' = indexFile
          /\ ~DiskConsistent']_vars

\* A removal on a saved store of several batches that stopped after it had
\* deleted some of the batch files: index.json still counts every record.
C32_Witness ==
    /\ pc = "closed"
    /\ call.op = "interrupted"
    /\ call.cached = {}
    /\ deleted # {}
    /\ OnlyUnlinks(log)
    /\ loadIndex(indexFile).chunkCount = call.count
    /\ call.count > BATCH_SIZE
    /\ \E b \in BatchNums : chunkFiles[b] # << >>
    /\ SumChunkFiles(MaxBatch) < call.count

(***************************************************************************)
(* C33 as stated: a run that took the diff path and in which the chunking, *)
(* the embedding or the storing of a file of the diff failed leaves the   *)
(* last commit hash of the state, in memory and on disk, as it was.       *)
(***************************************************************************)
C33_AsStated ==
    [][(/\ run.pc = "finish" /\ run'.pc = "idle"
        /\ run.path = "diff"
        /\ \E p \in PathSet : run.outcome[p] \in Failures) =>
           /\ getLastCommitHash(stateManager') = getLastCommitHash(stateManager)
           /\ getLastCommitHash(loadState(stateFile')) =
                  getLastCommitHash(loadState(stateFile))]_vars

\* The instance was configured with another dimension than the one its batch
\* files were written with.
Resized == pc = "reopened" /\ config.dimension # Dimension

(***************************************************************************)
(* C34 as stated: after a store with saved batches was reopened and       *)
(* configured with another dimension, every addChunk and every save       *)
(* leaves each batch with as many vectors as records, and getChunks() and *)
(* getEmbeddings() of equal length.                                        *)
(***************************************************************************)
C34_AsStated ==
    (Resized /\ call.op \in {"addChunk", "save"}) =>
        /\ \A b \in 0..(CeilDiv(index.chunkCount) - 1) :
              Len(loadEmbeddingBatch(Cur, b)) = Len(loadChunkBatch(Cur, b))
        /\ Len(getEmbeddings(Cur)) = Len(getChunks(Cur))

(***************************************************************************)
(* C35 as stated: for an instance opened on the directory that a process  *)
(* left when it stopped without a save(), after every addChunk and every  *)
(* save no batch holds more than BATCH_SIZE records and chunkCount is the *)
(* number of records getChunks() returns.                                  *)
(***************************************************************************)
C35_AsStated ==
    (pc = "reopened" /\ call.op \in {"addChunk", "save"}) =>
        /\ \A b \in BatchNums : Len(loadChunkBatch(Cur, b)) <= BATCH_SIZE
        /\ index.chunkCount = Len(getChunks(Cur))

\* Promise.all of a batch resolves: every processFile call of it has settled.
BatchSettles == run.pc = "await" /\ run'.pc \in {"batch", "finish"}

(***************************************************************************)
(* C36 as stated: when all processFile calls of a batch have settled,     *)
(* console.warn and console.log are the functions they were before the    *)
(* batch started, in whatever order the calls completed.                  *)
(***************************************************************************)
C36_AsStated ==
    [][BatchSettles => run'.console = run.before]_vars

\* The state file on disk records the file as processed.
RecordedAsProcessed(p) == loadState(stateFile).files[p] # << >>

\* The graph store's data on disk, as a new instance reads it, holds a record
\* of the file.
GraphOnDiskHolds(p) == hasChunksForSource(Fresh, p)

(***************************************************************************)
(* C37 as stated: at every point of a run with the graph enabled, every   *)
(* file that the state file on disk records as processed has its chunks   *)
(* in the data that the graph store has on disk.                           *)
(***************************************************************************)
C37_AsStated ==
    \A p \in PathSet : RecordedAsProcessed(p) => GraphOnDiskHolds(p)

\* What a caller and the directory show of a store: the records, the vectors,
\* chunkCount and the content of the batch files.
Shown(s) == [chunks |-> getChunks(s), embeddings |-> getEmbeddings(s),
             chunkCount |-> s.index.chunkCount,
             chunkFiles |-> s.chunkFiles, embFiles |-> s.embFiles]

\* Number of records of a source among the pairs of the store.
CountOf(s, source) == Len(RemovedPairs(s, source))

(***************************************************************************)
(* C38: removals by source commute and are idempotent.  When              *)
(* removeChunksBySource(a) has run, a following removeChunksBySource(b)   *)
(* leaves the same getChunks(), getEmbeddings(), chunkCount and batch     *)
(* files as the two calls made in the opposite order on the state before, *)
(* and a following removeChunksBySource(a) changes none of them.          *)
(***************************************************************************)
C38_RemovalsCommute ==
    [][call'.op = "removeChunksBySource" =>
          /\ \A b \in Sources :
                Shown(removeChunksBySource(Cur', b)) =
                    Shown(removeChunksBySource(removeChunksBySource(Cur, b),
                                               call'.source))
          /\ Shown(removeChunksBySource(Cur', call'.source)) = Shown(Cur')]_vars

\* A removal that dropped several records of its source from a store that
\* also held records of the other source and of a third one, partly cached
\* and partly on disk only.
C38_Witness ==
    /\ call.op = "removeChunksBySource"
    /\ call.count - index.chunkCount > 1
    /\ \E b \in Sources \ {call.source} : CountOf(Cur, b) > 0
    /\ CountOf(Cur, ThirdSource) > 0
    /\ call.cached # {}
    /\ \E n \in 0..(CeilDiv(call.count) - 1) : n \notin call.cached
====
